---------------------------- MODULE Spec2Model ----------------------------
(***************************************************************************)
(* A model of the mdbase language server (src/src/*.rs).                   *)
(*                                                                         *)
(* The shared BackendState (collection cache, document store, generation   *)
(* counters, file index) is the state; the handlers of server.rs, the      *)
(* debounced diagnostics tasks, the background index rebuild and the       *)
(* workspace commands are the actions.  Six specifications run them:      *)
(*                                                                         *)
(* Spec       text synchronisation and the debounced diagnostics tasks on  *)
(*            a markdown document of a loadable collection.                *)
(* SpecIndex  text synchronisation without edits, the background rebuild   *)
(*            and a collection whose files on disk change, for every kind  *)
(*            of file and types folder.                                    *)
(* SpecCmd    the workspace commands.                                      *)
(* SpecScan   the body-link scanner of body_links.rs and the cursor        *)
(*            scanner of text.rs as pure functions over bounded texts.     *)
(* SpecCall   the other functions of the providers, each called once on    *)
(*            arguments drawn from bounded sets.                           *)
(* SpecWalk   the extends-chain walks of commands.rs, one loop iteration   *)
(*            per step, under weak fairness.                               *)
(*                                                                         *)
(* Handlers of tower-lsp run on one task and interleave only at their      *)
(* await points, so a handler segment between two awaits is one action.    *)
(* Tasks given to tokio::spawn / spawn_blocking run on other threads and   *)
(* are split at every access to shared state that matters.                 *)
(***************************************************************************)
EXTENDS Integers, Sequences, FiniteSets, TLC

VARIABLES
    started,                \* initialize has been answered
    collection_root,        \* BackendState.collection_root
    collection,             \* BackendState.collection (the cached handle)
    documents,              \* BackendState.documents
    diagnostics_generation, \* BackendState.diagnostics_generation
    file_index,             \* BackendState.file_index.entries
    tasks,                  \* the debounced diagnostics tasks alive, in spawn order
    rebuild,                \* the spawn_blocking task of initialized()
    save_pending,           \* did_save handlers suspended in publish_diagnostics().await
    typesFolder,            \* settings.types_folder of the collection on disk
    diskOk,                 \* whether Collection::open(root) succeeds right now
    scope,                  \* the URI the editor works on in this behaviour
    out,                    \* what the last step sent to the client, if anything
    after_change,           \* history: debounced publications since the last did_change
    scanText,               \* SpecScan: the text handed to the scanners
    scanOut,                \* SpecScan: what the scanners returned for it
    callIn,                 \* SpecCall: the function called and its arguments
    callOut                 \* SpecCall: what the call returned

vars == << started, collection_root, collection, documents, diagnostics_generation,
           file_index, tasks, rebuild, save_pending, typesFolder, diskOk, scope,
           out, after_change, scanText, scanOut, callIn, callOut >>

runtimeVars == << started, collection_root, collection, documents,
                  diagnostics_generation, file_index, tasks, rebuild, save_pending,
                  typesFolder, diskOk, scope, out,
                  after_change >>

scanVars == << scanText, scanOut, callIn, callOut >>

\* Option::None
None == [none |-> TRUE]

-----------------------------------------------------------------------------
(* Bounds *)

MaxTasks == 2          \* debounced tasks alive at once
MaxGen == 2            \* largest value a generation counter takes
MaxPendingSaves == 1   \* did_save handlers suspended at once

-----------------------------------------------------------------------------
(* URIs and paths.  A file URI is the list of its directories below the    *)
(* file-system root, a stem and an extension.                              *)

RootDirs == << "r" >>

NoteUri       == [dirs |-> << "r" >>,           stem |-> "a", ext |-> "md"]
TypeMdUri     == [dirs |-> << "r", "_types" >>, stem |-> "t", ext |-> "md"]
TypeYamlUri   == [dirs |-> << "r", "_types" >>, stem |-> "t", ext |-> "yaml"]
SchemaMdUri   == [dirs |-> << "r", "schema" >>, stem |-> "t", ext |-> "md"]

Uris == { NoteUri, TypeMdUri, TypeYamlUri, SchemaMdUri }

TypesFolders == { "_types", "schema" }

\* uri.path().ends_with(".md")
PathEndsWithMd(uri) == uri.ext = "md"

\* uri.path().contains("/_types/")
PathContainsTypesDir(uri) == \E i \in DOMAIN uri.dirs : uri.dirs[i] = "_types"

IsPrefix(p, s) == Len(p) <= Len(s) /\ SubSeq(s, 1, Len(p)) = p

\* path.strip_prefix(&collection.root): the collection-relative path, or None
rel_path_from_uri(uri) ==
    IF IsPrefix(RootDirs, uri.dirs)
    THEN [dirs |-> SubSeq(uri.dirs, Len(RootDirs) + 1, Len(uri.dirs)),
          stem |-> uri.stem, ext |-> uri.ext]
    ELSE None

\* A second file of the collection, never opened in the editor.
OtherRelPath == [dirs |-> << >>, stem |-> "b", ext |-> "md"]

\* is_excluded && is_valid_extension, for the paths of this model: a path
\* below the types folder is not scanned, nor is one without a known extension.
Admitted(rel) ==
    /\ ~(rel.dirs # << >> /\ rel.dirs[1] = typesFolder)
    /\ rel.ext = "md"

-----------------------------------------------------------------------------
(* Document texts.  A text is what the external document parser makes of   *)
(* it (the kind of its frontmatter) and its body.                          *)

Texts == { [fm |-> "mapping", body |-> "x"],
           [fm |-> "mapping", body |-> "y"],
           [fm |-> "error",   body |-> "x"] }

parse_frontmatter(text) ==
    CASE text.fm = "error" ->
           [json |-> "{}", has_frontmatter |-> TRUE,
            parse_error |-> TRUE, mapping_error |-> FALSE]
      [] text.fm = "mapping" ->
           [json |-> "fields", has_frontmatter |-> TRUE,
            parse_error |-> FALSE, mapping_error |-> FALSE]
      [] text.fm \in {"null", "absent"} ->
           [json |-> "{}", has_frontmatter |-> (text.fm = "null"),
            parse_error |-> FALSE, mapping_error |-> FALSE]
      [] OTHER ->
           [json |-> "{}", has_frontmatter |-> TRUE,
            parse_error |-> FALSE, mapping_error |-> TRUE]

\* DocumentState::new
NewDocumentState(rope) == [rope |-> rope, cached_frontmatter |-> None]

\* DocumentState::frontmatter: the value returned
frontmatter(doc) ==
    IF doc.cached_frontmatter # None
    THEN doc.cached_frontmatter
    ELSE parse_frontmatter(doc.rope)

\* DocumentState::frontmatter: the document afterwards (the cache is filled)
AfterFrontmatter(doc) == [doc EXCEPT !.cached_frontmatter = frontmatter(doc)]

\* DocumentState::invalidate_frontmatter
invalidate_frontmatter(doc) == [doc EXCEPT !.cached_frontmatter = None]

\* BackendState::document_text
document_text(docs, uri) == IF docs[uri] = None THEN None ELSE docs[uri].rope

-----------------------------------------------------------------------------
(* The collection cache.  A handle carries two history flags:              *)
(*   invalidated  invalidate_collection() has run since the handle was     *)
(*                opened;                                                  *)
(*   outdated     a type-definition file of the collection has been saved  *)
(*                since the handle was opened.                             *)

FreshHandle == [invalidated |-> FALSE, outdated |-> FALSE]

\* Collection::open(&root)
CollectionOpen == IF diskOk THEN FreshHandle ELSE None

\* BackendState::get_collection run without interruption on cache `cache`:
\* the handle returned and the cache afterwards.
get_collection(cache) ==
    IF cache # None THEN [ret |-> cache, cache |-> cache]
    ELSE IF collection_root = None THEN [ret |-> None, cache |-> None]
    ELSE [ret |-> CollectionOpen, cache |-> CollectionOpen]

\* BackendState::invalidate_collection
invalidate_collection(cache) == None

\* History: the handles alive when invalidate_collection() runs.
MarkInvalidated(h) == IF h = None THEN None ELSE [h EXCEPT !.invalidated = TRUE]

\* History: the handles alive when a type-definition file is saved.
MarkOutdated(h) == IF h = None THEN None ELSE [h EXCEPT !.outdated = TRUE]

\* A file below <root>/<types_folder>/ with a type-definition extension.
IsTypeDefinitionFile(uri) ==
    LET rel == rel_path_from_uri(uri)
    IN  /\ rel # None
        /\ rel.dirs # << >>
        /\ rel.dirs[1] = typesFolder
        /\ rel.ext \in { "md", "yaml", "yml" }

-----------------------------------------------------------------------------
(* The file index.  An entry is its rel_path and the preview built from    *)
(* the text (the text itself, for texts under 2000 characters).            *)

build_entry(rel, text) == [rel_path |-> rel, preview |-> text]

Indexable(text) ==
    LET parsed == parse_frontmatter(text)
    IN  ~(parsed.parse_error \/ parsed.mapping_error)

RECURSIVE ReplaceFirst(_, _, _)
ReplaceFirst(entries, rel, entry) ==
    IF entries = << >> THEN << >>
    ELSE IF Head(entries).rel_path = rel THEN << entry >> \o Tail(entries)
    ELSE << Head(entries) >> \o ReplaceFirst(Tail(entries), rel, entry)

HasEntry(entries, rel) == \E i \in DOMAIN entries : entries[i].rel_path = rel

\* An upsert that pushes the entry without looking for an existing one.
AppendFromText(entries, rel, text) ==
    IF ~Indexable(text) THEN entries ELSE Append(entries, build_entry(rel, text))

\* FileIndex::upsert_from_text
upsert_from_text(entries, rel, text) ==
    IF ~Indexable(text) THEN entries
    ELSE IF HasEntry(entries, rel)
         THEN ReplaceFirst(entries, rel, build_entry(rel, text))
         ELSE Append(entries, build_entry(rel, text))

\* FileIndex::remove_path
remove_path(entries, rel) == SelectSeq(entries, LAMBDA e : e.rel_path # rel)

-----------------------------------------------------------------------------
(* Debounced diagnostics tasks (server.rs, did_change).  A task owns a     *)
(* clone of the Arc of its URI's counter: `detached` says that did_close   *)
(* has since removed that counter from the map, `frozen` is the value the  *)
(* orphaned counter then keeps for ever.                                   *)
(*   pc: "sleep"  in tokio::time::sleep, or woken and about to load the    *)
(*                counter: a notification processed before the load meets  *)
(*                the task in the same position either way                 *)
(*       "text"   the generation matched, publish() starts                 *)
(*       "fm"     publish() has the collection and the text                *)
(* History fields: `run` is "last" while no notification for the URI has   *)
(* followed the task's own did_change, "superseded" when the first one to  *)
(* follow was a did_change processed while the task slept, "broken"        *)
(* otherwise; `cancelled` is set by a did_change or did_save processed     *)
(* while the task slept.                                                   *)

NewTask(uri, gen) ==
    [uri |-> uri, gen |-> gen, detached |-> FALSE, frozen |-> 0, pc |-> "sleep",
     text |-> None, run |-> "last", cancelled |-> FALSE]

\* counter.load(Ordering::SeqCst)
CounterLoad(t) ==
    IF t.detached THEN t.frozen ELSE diagnostics_generation[t.uri].value

\* The test of server.rs line 156 with >= for ==.
GenerationNotOlder(t) == CounterLoad(t) >= t.gen

\* the test of server.rs line 156
GenerationMatches(t) == CounterLoad(t) = t.gen

RemoveAt(s, i) == SubSeq(s, 1, i - 1) \o SubSeq(s, i + 1, Len(s))

\* History: a notification of kind `kind` for `uri` has been processed.
Note(ts, uri, kind) ==
    [i \in DOMAIN ts |->
        IF ts[i].uri # uri THEN ts[i]
        ELSE [ts[i] EXCEPT
                !.run = IF @ # "last" THEN @
                        ELSE IF kind = "did_change" /\ ts[i].pc = "sleep"
                             THEN "superseded"
                             ELSE "broken",
                !.cancelled = @ \/ (ts[i].pc = "sleep"
                                     /\ kind \in {"did_change", "did_save"})]]

\* BackendState::bump_generation: the map afterwards
bump_generation(gens, uri) ==
    [gens EXCEPT ![uri] = IF @ = None THEN [value |-> 1]
                          ELSE [value |-> @.value + 1]]

\* The value a counter holds, 0 for one generation_counter() would create.
CounterValue(gens, uri) == IF gens[uri] = None THEN 0 ELSE gens[uri].value

-----------------------------------------------------------------------------
(* diagnostics::publish run by a handler (did_open, did_save), lines 11-38 *)
(* up to the await of publish_diagnostics: the publication it hands over,  *)
(* if any, and the document store afterwards (frontmatter() fills the      *)
(* cache).                                                                 *)

Publication(uri, by, text, fm, t) ==
    [uri |-> uri, by |-> by, text |-> text, frontmatter |-> fm,
     run |-> t.run, cancelled |-> t.cancelled]

NoTask == [run |-> "last", cancelled |-> FALSE]

PublishReaches(docs, col, uri) ==
    /\ PathEndsWithMd(uri)
    /\ col # None
    /\ document_text(docs, uri) # None
    /\ rel_path_from_uri(uri) # None

publish(docs, col, uri, by) ==
    IF PublishReaches(docs, col, uri)
    THEN [docs |-> [docs EXCEPT ![uri] = AfterFrontmatter(@)],
          pubs |-> { Publication(uri, by, docs[uri].rope,
                                 frontmatter(docs[uri]), NoTask) }]
    ELSE [docs |-> docs, pubs |-> {}]

\* What a step sends to the client: diagnostics notifications and, for a
\* request, the response.
Output(pubs, reply) == [pubs |-> pubs, reply |-> reply]

Silent == Output({}, None)

-----------------------------------------------------------------------------
(* The state after construction (MdbaseLanguageServer::new).               *)

RuntimeInit ==
    /\ started = FALSE
    /\ collection_root = None
    /\ collection = None
    /\ documents = [u \in Uris |-> None]
    /\ diagnostics_generation = [u \in Uris |-> None]
    /\ file_index = << >>
    /\ tasks = << >>
    /\ rebuild = [pc |-> "unspawned", col |-> None]
    /\ save_pending = [u \in Uris |-> 0]
    /\ diskOk = TRUE
    /\ out = Silent
    /\ after_change = -1

ScanIdle ==
    /\ scanText = << >>
    /\ scanOut = None
    /\ callIn = None
    /\ callOut = None

\* The editor works on a note of a collection whose types folder is the
\* default one.
Init ==
    /\ RuntimeInit
    /\ typesFolder = "_types"
    /\ scope = NoteUri
    /\ ScanIdle

\* Every kind of file, for either types folder.
InitIndex ==
    /\ RuntimeInit
    /\ typesFolder \in TypesFolders
    /\ scope \in Uris
    /\ ScanIdle

-----------------------------------------------------------------------------
(* LSP lifecycle (server.rs lines 27-107).                                 *)

\* What a handler segment leaves unchanged in the environment.
EnvUnchanged == UNCHANGED << typesFolder, diskOk, scope, scanVars >>

\* initialize: the root comes from workspace_folders[0] or root_uri, or
\* stays unset when the client names neither.
initialize(hasRoot) ==
    /\ ~started
    /\ started' = TRUE
    /\ collection_root' = IF hasRoot THEN [dirs |-> RootDirs] ELSE None
    /\ out' = Silent
    /\ UNCHANGED << collection, documents, diagnostics_generation, file_index,
                    tasks, rebuild, save_pending, after_change >>
    /\ EnvUnchanged

\* initialized: spawn_blocking the index rebuild.
initialized ==
    /\ started
    /\ rebuild.pc = "unspawned"
    /\ rebuild' = [pc |-> "read", col |-> None]
    /\ out' = Silent
    /\ UNCHANGED << started, collection_root, collection, documents,
                    diagnostics_generation, file_index, tasks, save_pending,
                    after_change >>
    /\ EnvUnchanged

-----------------------------------------------------------------------------
(* Text synchronisation (server.rs lines 113-171 and 234-272).             *)

did_open(uri, text) ==
    LET docs1 == [documents EXCEPT ![uri] = NewDocumentState(text)]
        got   == get_collection(collection)
        rel   == rel_path_from_uri(uri)
        res   == publish(docs1, got.ret, uri, "did_open")
    IN  /\ started
        /\ collection' = got.cache
        /\ file_index' = IF got.ret # None /\ rel # None
                         THEN upsert_from_text(file_index, rel, text)
                         ELSE file_index
        /\ documents' = res.docs
        /\ out' = Output(res.pubs, None)
        /\ tasks' = Note(tasks, uri, "did_open")
        /\ after_change' = -1
        /\ UNCHANGED << started, collection_root, diagnostics_generation, rebuild,
                        save_pending >>
        /\ EnvUnchanged

\* The edit of server.rs lines 135-144 alone: the rope changes, the cache stays.
ReplaceRope(doc, text) == [doc EXCEPT !.rope = text]

\* The rope and the cache after the content changes of one did_change, whose
\* combined effect on the text is `text` (server.rs lines 134-146).
ApplyChanges(doc, text) == invalidate_frontmatter([doc EXCEPT !.rope = text])

did_change(uri, text) ==
    LET gens == bump_generation(diagnostics_generation, uri)
    IN  /\ started
        /\ Len(tasks) < MaxTasks
        /\ CounterValue(diagnostics_generation, uri) < MaxGen
        /\ documents' = IF documents[uri] # None
                        THEN [documents EXCEPT ![uri] = ApplyChanges(@, text)]
                        ELSE documents
        /\ diagnostics_generation' = gens
        /\ tasks' = Append(Note(tasks, uri, "did_change"),
                           NewTask(uri, gens[uri].value))
        /\ out' = Silent
        /\ after_change' = 0
        /\ UNCHANGED << started, collection_root, collection, file_index, rebuild,
                        save_pending >>
        /\ EnvUnchanged

\* The tasks of `uri` after diagnostics_generation.remove(uri): each keeps
\* its Arc, now out of reach of bump_generation.
Orphan(ts, uri) ==
    [i \in DOMAIN ts |->
        IF ts[i].uri = uri /\ ~ts[i].detached
        THEN [ts[i] EXCEPT !.detached = TRUE,
                           !.frozen = CounterValue(diagnostics_generation, uri)]
        ELSE ts[i]]

\* A did_close that leaves the counter in the map.
KeepGeneration(gens, uri) == gens

\* The generation map after did_close (server.rs line 170).
RemoveGeneration(gens, uri) == [gens EXCEPT ![uri] = None]

did_close(uri) ==
    LET got  == get_collection(collection)
        rel  == rel_path_from_uri(uri)
        gens == RemoveGeneration(diagnostics_generation, uri)
    IN  /\ started
        /\ collection' = got.cache
        /\ file_index' = IF got.ret # None /\ rel # None
                         THEN remove_path(file_index, rel)
                         ELSE file_index
        /\ documents' = [documents EXCEPT ![uri] = None]
        /\ diagnostics_generation' = gens
        /\ tasks' = IF gens[uri] = None
                    THEN Orphan(Note(tasks, uri, "did_close"), uri)
                    ELSE Note(tasks, uri, "did_close")
        /\ out' = Silent
        /\ after_change' = -1
        /\ UNCHANGED << started, collection_root, rebuild, save_pending >>
        /\ EnvUnchanged

\* server.rs line 251: whether did_save reloads the collection.
SaveInvalidates(uri) == PathContainsTypesDir(uri)

\* did_save up to the await inside publish (lines 235-260).  `read` is what
\* read_to_string returns for the file: a text, or None for an error.
did_save(uri, read) ==
    LET typeFile == IsTypeDefinitionFile(uri)
        cache0 == IF typeFile THEN MarkOutdated(collection) ELSE collection
        held0  == IF typeFile THEN MarkOutdated(rebuild.col) ELSE rebuild.col
        docs1  == IF read # None
                  THEN [documents EXCEPT ![uri] = NewDocumentState(read)]
                  ELSE documents
        inval  == SaveInvalidates(uri)
        cache1 == IF inval THEN invalidate_collection(cache0) ELSE cache0
        held1  == IF inval THEN MarkInvalidated(held0) ELSE held0
        got    == get_collection(cache1)
        res    == publish(docs1, got.ret, uri, "did_save")
    IN  /\ started
        /\ IF ~PathEndsWithMd(uri)
           THEN /\ collection' = cache0
                /\ rebuild' = [rebuild EXCEPT !.col = held0]
                /\ out' = Silent
                /\ UNCHANGED << documents, diagnostics_generation, save_pending >>
           ELSE /\ CounterValue(diagnostics_generation, uri) < MaxGen
                /\ res.pubs # {} => save_pending[uri] < MaxPendingSaves
                /\ documents' = res.docs
                /\ collection' = got.cache
                /\ rebuild' = [rebuild EXCEPT !.col = held1]
                /\ diagnostics_generation' = bump_generation(diagnostics_generation, uri)
                /\ out' = Output(res.pubs, None)
                /\ save_pending' = IF res.pubs # {}
                                   THEN [save_pending EXCEPT ![uri] = @ + 1]
                                   ELSE save_pending
        /\ tasks' = IF PathEndsWithMd(uri) THEN Note(tasks, uri, "did_save") ELSE tasks
        /\ after_change' = -1
        /\ UNCHANGED << started, collection_root, file_index >>
        /\ EnvUnchanged

\* did_save after the await (lines 262-271): the incremental index update.
did_save_upsert(uri) ==
    LET got  == get_collection(collection)
        rel  == rel_path_from_uri(uri)
        text == document_text(documents, uri)
    IN  /\ save_pending[uri] > 0
        /\ save_pending' = [save_pending EXCEPT ![uri] = @ - 1]
        /\ collection' = got.cache
        /\ file_index' = IF got.ret # None /\ rel # None /\ text # None
                         THEN upsert_from_text(file_index, rel, text)
                         ELSE file_index
        /\ out' = Silent
        /\ UNCHANGED << started, collection_root, documents, diagnostics_generation,
                        tasks, rebuild, after_change >>
        /\ EnvUnchanged

-----------------------------------------------------------------------------
(* The debounced task of did_change (server.rs lines 154-159) and the      *)
(* diagnostics::publish it runs on its own thread.                         *)

TaskUnchanged ==
    /\ UNCHANGED << started, collection_root, diagnostics_generation, file_index,
                    rebuild, save_pending >>
    /\ EnvUnchanged

\* tokio::time::sleep(300 ms) completes; timers complete in spawn order.
timer_fire(i) ==
    /\ tasks[i].pc = "sleep"
    /\ \A j \in 1 .. (i - 1) : tasks[j].pc # "sleep"
    /\ tasks' = [tasks EXCEPT ![i].pc = "ready"]
    /\ out' = Silent
    /\ UNCHANGED << collection, documents, after_change >>
    /\ TaskUnchanged

\* if counter.load() == gen { publish } : otherwise the task ends.
check_generation(i) ==
    /\ tasks[i].pc = "ready"
    /\ tasks' = IF GenerationMatches(tasks[i])
                THEN [tasks EXCEPT ![i].pc = "text"]
                ELSE RemoveAt(tasks, i)
    /\ out' = Silent
    /\ UNCHANGED << collection, documents, after_change >>
    /\ TaskUnchanged

\* publish lines 13-35: the collection, the text and the relative path.
publish_read(i) ==
    LET t   == tasks[i]
        got == get_collection(collection)
    IN  /\ t.pc = "text"
        /\ collection' = IF PathEndsWithMd(t.uri) THEN got.cache ELSE collection
        /\ tasks' = IF PublishReaches(documents, got.ret, t.uri)
                    THEN [tasks EXCEPT ![i].pc = "fm",
                                       ![i].text = document_text(documents, t.uri)]
                    ELSE RemoveAt(tasks, i)
        /\ out' = Silent
        /\ UNCHANGED << documents, after_change >>
        /\ TaskUnchanged

\* publish lines 37-41: the cached frontmatter of the document as it is now
\* (or a parse of the text read, when the document has been closed since),
\* compute() and the notification.
publish_compute(i) ==
    LET t  == tasks[i]
        fm == IF documents[t.uri] # None THEN frontmatter(documents[t.uri])
              ELSE parse_frontmatter(t.text)
    IN  /\ t.pc = "fm"
        /\ documents' = IF documents[t.uri] # None
                        THEN [documents EXCEPT ![t.uri] = AfterFrontmatter(@)]
                        ELSE documents
        /\ out' = Output({ Publication(t.uri, "debounce", t.text, fm, t) }, None)
        /\ tasks' = RemoveAt(tasks, i)
        /\ after_change' = IF after_change >= 0 THEN after_change + 1 ELSE after_change
        /\ UNCHANGED collection
        /\ TaskUnchanged

-----------------------------------------------------------------------------
(* The background rebuild (server.rs lines 101-106): get_collection, step  *)
(* by step (state.rs lines 78-105), then FileIndex::rebuild.               *)

RebuildUnchanged ==
    /\ out' = Silent
    /\ UNCHANGED << started, collection_root, documents, diagnostics_generation,
                    tasks, save_pending, after_change >>
    /\ EnvUnchanged

\* state.rs lines 79-88: the cached handle, or the root to open.
rebuild_get_read ==
    /\ rebuild.pc = "read"
    /\ rebuild' = IF collection # None THEN [pc |-> "scan", col |-> collection]
                  ELSE IF collection_root = None THEN [pc |-> "done", col |-> None]
                  ELSE [pc |-> "open", col |-> None]
    /\ UNCHANGED << collection, file_index >>
    /\ RebuildUnchanged

\* state.rs line 90: Collection::open.
rebuild_get_open ==
    /\ rebuild.pc = "open"
    /\ rebuild' = IF CollectionOpen # None
                  THEN [pc |-> "write", col |-> CollectionOpen]
                  ELSE [pc |-> "done", col |-> None]
    /\ UNCHANGED << collection, file_index >>
    /\ RebuildUnchanged

\* The cache after state.rs line 97 stores handle `h`.
StoreHandle(cache, h) == h

\* state.rs line 97: the handle goes into the cache.
rebuild_get_write ==
    /\ rebuild.pc = "write"
    /\ collection' = StoreHandle(collection, rebuild.col)
    /\ rebuild' = [rebuild EXCEPT !.pc = "scan"]
    /\ UNCHANGED file_index
    /\ RebuildUnchanged

\* What the scan can find on disk: the file of `scope`, if admitted, with a
\* text that parses, and the other file of the collection; either may be
\* missing or unreadable, and read_dir lists them in either order.
ScanEntries ==
    { build_entry(rel_path_from_uri(scope), t) :
        t \in { x \in Texts : Indexable(x) /\ Admitted(rel_path_from_uri(scope)) } }
    \cup { build_entry(OtherRelPath, [fm |-> "mapping", body |-> "x"]) }

ScanResults ==
    { es \in UNION { [1 .. n -> ScanEntries] : n \in 0 .. Cardinality(ScanEntries) } :
        \A i, j \in DOMAIN es : es[i].rel_path = es[j].rel_path => i = j }

\* FileIndex::rebuild: the scan, then the swap of the whole vector.
rebuild_swap(entries) ==
    /\ rebuild.pc = "scan"
    /\ file_index' = entries
    /\ rebuild' = [pc |-> "done", col |-> None]
    /\ UNCHANGED collection
    /\ RebuildUnchanged

-----------------------------------------------------------------------------
(* The environment: the collection's configuration on disk becomes         *)
(* unreadable, or readable again.                                          *)

disk_change ==
    /\ diskOk' = ~diskOk
    /\ out' = Silent
    /\ UNCHANGED << started, collection_root, collection, documents,
                    diagnostics_generation, file_index, tasks, rebuild, save_pending,
                    after_change, typesFolder, scope, scanVars >>

-----------------------------------------------------------------------------
(* Workspace commands (server.rs lines 80-88 and 329-334, commands.rs).    *)

\* execute_command_provider.commands of the initialize result
AdvertisedCommands ==
    { "mdbase.createFile", "mdbase.typeInfo", "mdbase.validateCollection",
      "mdbase.queryCollection" }

Commands == AdvertisedCommands \cup { "mdbase.other" }

\* commands::execute, the match on params.command
Route(cmd) ==
    CASE cmd = "mdbase.createFile" -> "create_file"
      [] cmd = "mdbase.typeInfo" -> "type_info"
      [] cmd = "mdbase.validateCollection" -> "validate_collection"
      [] OTHER -> "unknown"

\* The type named by the argument of typeInfo and createFile: one the
\* collection defines, one it does not, or no "type" key at all.
TypeArgs == { "known", "unknown", "missing" }

\* The paths a collection-wide validate_op can report issues for.
IssuePaths == { rel_path_from_uri(scope), OtherRelPath }

\* commands::type_info: the value returned
type_info(col, typeArg) ==
    IF col = None \/ typeArg # "known" THEN None
    ELSE [kind |-> "prompt_fields"]

\* commands::create_file: the value returned (the result of collection.create)
create_file(col, typeArg) ==
    IF col = None THEN None ELSE [kind |-> "created", type |-> typeArg]

\* commands::validate_collection: the value returned, and the diagnostics
\* handed to the client.  `issues` are the paths validate_op reports.
validate_collection(col, issues) ==
    [value |-> IF col = None THEN None
               ELSE [kind |-> "validation", issue_paths |-> issues],
     pubs  |-> {}]

\* Backend::execute_command, that is commands::execute.
execute_command(cmd, typeArg, issues) ==
    LET got   == get_collection(collection)
        route == Route(cmd)
        col   == got.ret
        value == CASE route = "create_file" -> create_file(col, typeArg)
                   [] route = "type_info" -> type_info(col, typeArg)
                   [] route = "validate_collection" ->
                        validate_collection(col, issues).value
                   [] OTHER -> None
        pubs  == IF route = "validate_collection"
                 THEN validate_collection(col, issues).pubs
                 ELSE {}
    IN  /\ started
        /\ collection' = IF route = "unknown" THEN collection ELSE got.cache
        /\ out' = Output(pubs, [cmd |-> cmd, handler |-> route, value |-> value])
        /\ UNCHANGED << started, collection_root, documents, diagnostics_generation,
                        file_index, tasks, rebuild, save_pending, after_change >>
        /\ EnvUnchanged

-----------------------------------------------------------------------------
(* Specifications.                                                         *)

\* Text synchronisation and the debounced tasks, on a workspace with a root.
Next ==
    \/ initialize(TRUE)
    \/ \E text \in Texts : did_open(scope, text)
    \/ \E text \in Texts : did_change(scope, text)
    \/ did_close(scope)
    \/ \E read \in Texts \cup { None } : did_save(scope, read)
    \/ did_save_upsert(scope)
    \/ \E i \in DOMAIN tasks : timer_fire(i)
    \/ \E i \in DOMAIN tasks : check_generation(i)
    \/ \E i \in DOMAIN tasks : publish_read(i)
    \/ \E i \in DOMAIN tasks : publish_compute(i)

Spec == Init /\ [][Next]_vars

\* Text synchronisation without edits, the rebuild and the disk.
NextIndex ==
    \/ \E hasRoot \in BOOLEAN : initialize(hasRoot)
    \/ initialized
    \/ \E text \in Texts : did_open(scope, text)
    \/ did_close(scope)
    \/ \E read \in Texts \cup { None } : did_save(scope, read)
    \/ did_save_upsert(scope)
    \/ rebuild_get_read
    \/ rebuild_get_open
    \/ rebuild_get_write
    \/ \E entries \in ScanResults : rebuild_swap(entries)
    \/ disk_change

SpecIndex == InitIndex /\ [][NextIndex]_vars

\* The workspace commands, on documents that are opened and closed.
NextCmd ==
    \/ \E hasRoot \in BOOLEAN : initialize(hasRoot)
    \/ \E text \in Texts : did_open(scope, text)
    \/ did_close(scope)
    \/ disk_change
    \/ \E cmd \in Commands, typeArg \in TypeArgs, issues \in SUBSET IssuePaths :
          execute_command(cmd, typeArg, issues)

SpecCmd == Init /\ [][NextCmd]_vars

-----------------------------------------------------------------------------
(* Strings.  A string is the sequence of its chars, a char a one-letter    *)
(* string; Astral stands for a char outside the Basic Multilingual Plane.  *)
(* An Option<String> is None or Some(s).  Indices are 0-based as in the    *)
(* source: Ch(chars, k) is chars[k].                                       *)

Astral == "U+1F600"

\* The backtick.
Backtick == "GRAVE"

Some(x) == [some |-> x]

Ch(chars, k) == chars[k + 1]

\* char::len_utf16
len_utf16(c) == IF c = Astral THEN 2 ELSE 1

\* &chars[a..b], defined when SliceOk(chars, a, b); it panics otherwise
SliceOk(chars, a, b) == a <= b /\ b <= Len(chars)

Slice(chars, a, b) == SubSeq(chars, a + 1, b)

RECURSIVE TrimStart(_)
TrimStart(s) ==
    IF s # << >> /\ Head(s) = " " THEN TrimStart(Tail(s)) ELSE s

RECURSIVE TrimEnd(_)
TrimEnd(s) ==
    IF s # << >> /\ s[Len(s)] = " " THEN TrimEnd(SubSeq(s, 1, Len(s) - 1)) ELSE s

Trim(s) == TrimEnd(TrimStart(s))

StartsWith(s, p) == Len(p) <= Len(s) /\ SubSeq(s, 1, Len(p)) = p

\* str::find(c): the index of the first c, or -1
Find(s, c) ==
    IF \E k \in 0 .. (Len(s) - 1) : Ch(s, k) = c
    THEN CHOOSE k \in 0 .. (Len(s) - 1) :
            /\ Ch(s, k) = c
            /\ \A j \in 0 .. (k - 1) : Ch(s, j) # c
    ELSE -1

Http  == << "h", "t", "t", "p", ":", "/", "/" >>
Https == << "h", "t", "t", "p", "s", ":", "/", "/" >>

IsExternal(path) == StartsWith(path, Http) \/ StartsWith(path, Https)

-----------------------------------------------------------------------------
(* body_links.rs.                                                          *)

\* utf16_col: the UTF-16 column of the char at index char_idx
RECURSIVE utf16_col(_, _)
utf16_col(chars, char_idx) ==
    IF char_idx = 0 THEN 0
    ELSE utf16_col(chars, char_idx - 1) + len_utf16(Ch(chars, char_idx - 1))

\* split_anchor
split_anchor(s) ==
    LET hash_pos == Find(s, "#")
        anchor   == Trim(Slice(s, hash_pos + 1, Len(s)))
    IN  IF hash_pos >= 0
        THEN [target |-> Trim(Slice(s, 0, hash_pos)),
              anchor |-> IF anchor = << >> THEN None ELSE Some(anchor)]
        ELSE [target |-> Trim(s), anchor |-> None]

\* lines 94-96: the index of the closing backtick, or len
RECURSIVE SkipCode(_, _)
SkipCode(chars, i) ==
    IF i < Len(chars) /\ Ch(chars, i) # Backtick THEN SkipCode(chars, i + 1) ELSE i

\* lines 110-112: the index of the closing "]]", or len
RECURSIVE WikiClose(_, _)
WikiClose(chars, i) ==
    IF i < Len(chars)
       /\ ~(Ch(chars, i) = "]" /\ i + 1 < Len(chars) /\ Ch(chars, i + 1) = "]")
    THEN WikiClose(chars, i + 1)
    ELSE i

\* lines 160-168 and 183-191: the index after the char that brings the
\* nesting depth of open/close back to 0, or len
RECURSIVE DepthEnd(_, _, _, _, _)
DepthEnd(chars, i, depth, open, close) ==
    IF i < Len(chars) /\ depth > 0
    THEN DepthEnd(chars, i + 1,
                  depth + (IF Ch(chars, i) = open THEN 1 ELSE 0)
                        - (IF Ch(chars, i) = close THEN 1 ELSE 0),
                  open, close)
    ELSE i

\* lines 224-241: the char index that has UTF-16 column `col`
RECURSIVE CharIndexOf(_, _, _, _)
CharIndexOf(chars, col, j, utf16_count) ==
    IF j < Len(chars) /\ utf16_count < col
    THEN CharIndexOf(chars, col, j + 1, utf16_count + len_utf16(Ch(chars, j)))
    ELSE j

\* What a scanner call yields: the value returned, or a panic.
Returned(value) == [panic |-> FALSE, value |-> value]

Panicked == [panic |-> TRUE, value |-> None]

BodyLink(target, alias, anchor, format, line_idx, start_col, end_col) ==
    [target |-> target, alias |-> alias, anchor |-> anchor, format |-> format,
     start_line |-> line_idx, start_col |-> start_col,
     end_line |-> line_idx, end_col |-> end_col]

\* lines 116-149: the link of a closed wikilink with content chars[cs..ce],
\* as the one-element or empty list of what is pushed
WikiLinks(chars, line_idx, is_embed, start_col, cs, ce) ==
    LET content  == Slice(chars, cs, ce)
        pipe_pos == Find(content, "|")
        tanda    == IF pipe_pos >= 0 THEN Trim(Slice(content, 0, pipe_pos))
                    ELSE Trim(content)
        alias    == IF pipe_pos >= 0
                    THEN Some(Trim(Slice(content, pipe_pos + 1, Len(content))))
                    ELSE None
        sa       == split_anchor(tanda)
    IN  IF is_embed \/ content = << >> \/ sa.target = << >> THEN << >>
        ELSE << BodyLink(sa.target, alias, sa.anchor, "Wikilink", line_idx,
                         start_col, utf16_col(chars, ce + 2)) >>

\* lines 192-266: the link of a markdown link whose "[" is at index open,
\* whose path starts at paren_start and whose scan ended at index i
MarkdownLinks(chars, line_idx, is_image, open, paren_start, i) ==
    LET start_col == utf16_col(chars, IF is_image THEN open - 1 ELSE open)
        path      == Trim(Slice(chars, paren_start, i - 1))
        sa        == split_anchor(path)
        bcs       == CharIndexOf(chars, start_col, 0, 0)
                        + (IF is_image THEN 2 ELSE 1)
        bce       == paren_start - 2
        text      == Trim(Slice(chars, bcs, bce))
        alias     == IF bcs < bce /\ bce <= Len(chars) /\ text # << >>
                     THEN Some(text) ELSE None
    IN  IF is_image \/ path = << >> \/ IsExternal(path) \/ sa.target = << >>
        THEN << >>
        ELSE << BodyLink(sa.target, alias, sa.anchor, "Markdown", line_idx,
                         start_col, utf16_col(chars, i)) >>

\* parse_line_links from index i on, `links` being what `out` holds so far
RECURSIVE ParseFrom(_, _, _, _)
ParseFrom(chars, line_idx, i, links) ==
    LET len   == Len(chars)
        bang  == i > 0 /\ Ch(chars, i - 1) = "!"
        code  == SkipCode(chars, i + 1)
        wc    == WikiClose(chars, i + 2)
        be    == DepthEnd(chars, i + 1, 1, "[", "]")
        pe    == DepthEnd(chars, be + 1, 1, "(", ")")
    IN  IF i >= len THEN Returned(links)
        ELSE IF Ch(chars, i) = Backtick
        THEN ParseFrom(chars, line_idx, IF code < len THEN code + 1 ELSE code, links)
        ELSE IF i + 1 < len /\ Ch(chars, i) = "[" /\ Ch(chars, i + 1) = "["
        THEN IF wc >= len THEN Returned(links)
             ELSE ParseFrom(chars, line_idx, wc + 2,
                    links \o WikiLinks(chars, line_idx, bang,
                                       utf16_col(chars, IF bang THEN i - 1 ELSE i),
                                       i + 2, wc))
        ELSE IF Ch(chars, i) = "["
        THEN IF be < len /\ Ch(chars, be) = "("
             THEN IF ~SliceOk(chars, be + 1, pe - 1) THEN Panicked
                  ELSE ParseFrom(chars, line_idx, pe,
                         links \o MarkdownLinks(chars, line_idx, bang, i, be + 1, pe))
             ELSE ParseFrom(chars, line_idx, be, links)
        ELSE ParseFrom(chars, line_idx, i + 1, links)

\* parse_line_links: `out` afterwards, or a panic
parse_line_links(line, line_idx, out_links) == ParseFrom(line, line_idx, 0, out_links)

\* lines 42-43: the line opens or closes a fenced block
IsFence(line) ==
    \/ StartsWith(TrimStart(line), << Backtick, Backtick, Backtick >>)
    \/ StartsWith(TrimStart(line), << "~", "~", "~" >>)

\* find_body_links from line index k on (0-based), inside a fenced block or not
RECURSIVE FindFrom(_, _, _, _)
FindFrom(text, k, in_fenced_block, links) ==
    LET line   == text[k + 1]
        parsed == parse_line_links(line, k, links)
    IN  IF k >= Len(text) THEN Returned(links)
        ELSE IF IsFence(line) THEN FindFrom(text, k + 1, ~in_fenced_block, links)
        ELSE IF in_fenced_block THEN FindFrom(text, k + 1, in_fenced_block, links)
        ELSE IF parsed.panic THEN Panicked
        ELSE FindFrom(text, k + 1, in_fenced_block, parsed.value)

find_body_links(text) == FindFrom(text, 0, FALSE, << >>)

\* Iterator::find of line 74
FirstSpanning(links, col) ==
    IF \E n \in DOMAIN links : col >= links[n].start_col /\ col < links[n].end_col
    THEN Some(links[CHOOSE n \in DOMAIN links :
                /\ col >= links[n].start_col /\ col < links[n].end_col
                /\ \A m \in 1 .. (n - 1) :
                      ~(col >= links[m].start_col /\ col < links[m].end_col)])
    ELSE None

\* body_link_at from line index k on
RECURSIVE AtFrom(_, _, _, _, _)
AtFrom(text, k, in_fenced_block, line, col) ==
    LET line_text == text[k + 1]
        parsed    == parse_line_links(line_text, k, << >>)
    IN  IF k >= Len(text) THEN Returned(None)
        ELSE IF IsFence(line_text) THEN AtFrom(text, k + 1, ~in_fenced_block, line, col)
        ELSE IF in_fenced_block THEN AtFrom(text, k + 1, in_fenced_block, line, col)
        ELSE IF k = line
        THEN (IF parsed.panic THEN Panicked
              ELSE Returned(FirstSpanning(parsed.value, col)))
        ELSE AtFrom(text, k + 1, in_fenced_block, line, col)

body_link_at(text, line, col) == AtFrom(text, 0, FALSE, line, col)

-----------------------------------------------------------------------------
(* text.rs, link_at_position (lines 163-264).                              *)

\* str::split(c).next(): the part before the first c
BeforeFirst(s, c) == IF Find(s, c) >= 0 THEN Slice(s, 0, Find(s, c)) ELSE s

LinkAtCursor(target, start_col, end_col) ==
    [target |-> target, start_col |-> start_col, end_col |-> end_col]

\* link_at_position on the chars of the line, from index i on
RECURSIVE CursorFrom(_, _, _)
CursorFrom(chars, column, i) ==
    LET len    == Len(chars)
        bang   == i > 0 /\ Ch(chars, i - 1) = "!"
        link_start == IF bang THEN i - 1 ELSE i
        wc     == WikiClose(chars, i + 2)
        wtarget == Trim(BeforeFirst(BeforeFirst(Slice(chars, i + 2, wc), "|"), "#"))
        be     == DepthEnd(chars, i + 1, 1, "[", "]")
        pe     == DepthEnd(chars, be + 1, 1, "(", ")")
        path   == Trim(Slice(chars, be + 1, pe - 1))
    IN  IF i >= len THEN Returned(None)
        ELSE IF i + 1 < len /\ Ch(chars, i) = "[" /\ Ch(chars, i + 1) = "["
        THEN IF wc >= len THEN Returned(None)
             ELSE IF column >= link_start /\ column < wc + 2 /\ wtarget # << >>
             THEN Returned(Some(LinkAtCursor(wtarget, link_start, wc + 2)))
             ELSE CursorFrom(chars, column, wc + 2)
        ELSE IF Ch(chars, i) = "["
        THEN IF be < len /\ Ch(chars, be) = "("
             THEN IF ~SliceOk(chars, be + 1, pe - 1) THEN Panicked
                  ELSE IF /\ column >= link_start /\ column < pe
                          /\ path # << >> /\ ~IsExternal(path)
                          /\ BeforeFirst(path, "#") # << >>
                  THEN Returned(Some(LinkAtCursor(BeforeFirst(path, "#"),
                                                  link_start, pe)))
                  ELSE CursorFrom(chars, column, pe)
             ELSE CursorFrom(chars, column, be)
        ELSE CursorFrom(chars, column, i + 1)

link_at_position(text, line_idx, column) ==
    IF line_idx >= Len(text) THEN Returned(None)
    ELSE CursorFrom(text[line_idx + 1], column, 0)

-----------------------------------------------------------------------------
(* The scanners on bounded texts.  A line is made of at most MaxTokens     *)
(* tokens; a text is one such line, alone or after a line that opens a     *)
(* fenced block.                                                           *)

MaxTokens == 4

\* The tail of a markdown link, "](a)", and a URL scheme, as tokens of their own.
LinkTail == << "]", "(", "a", ")" >>

Tokens ==
    { << "[", "[" >>, << "]", "]" >>, << "[" >>, << "]", "(" >>, << ")" >>,
      << "!" >>, << Backtick >>, << "a" >>, << "|" >>, << Astral >>,
      LinkTail, Http }

RECURSIVE Concat(_)
Concat(ts) == IF ts = << >> THEN << >> ELSE Head(ts) \o Concat(Tail(ts))

ScanLines ==
    { Concat(ts) : ts \in UNION { [1 .. n -> Tokens] : n \in 0 .. MaxTokens } }

FenceLine == << Backtick, Backtick, Backtick >>

TildeLine == << "~", "~", "~" >>

\* A line alone, a line inside a fenced block that nothing closes, and a line
\* inside a fenced block followed by the same line after it.
ScanTexts ==
    { << l >> : l \in ScanLines }
        \cup { << f, l >> : f \in { FenceLine, TildeLine }, l \in ScanLines }
        \cup { << FenceLine, l, FenceLine, l >> : l \in ScanLines }

\* The positions a request can name in a text.
ScanPositions(text) ==
    (0 .. (Len(text) - 1)) \X (0 .. utf16_col(text[Len(text)], Len(text[Len(text)])))

\* One call is made on the text of a behaviour.
InitScan ==
    /\ RuntimeInit
    /\ typesFolder = "_types"
    /\ scope = NoteUri
    /\ scanText \in ScanTexts
    /\ scanOut = None
    /\ callIn = None
    /\ callOut = None

scan_find_body_links ==
    /\ scanOut = None
    /\ scanOut' = [call |-> "find_body_links", result |-> find_body_links(scanText)]
    /\ UNCHANGED << runtimeVars, scanText, callIn, callOut >>

scan_body_link_at(pos) ==
    /\ scanOut = None
    /\ scanOut' = [call |-> "body_link_at",
                   result |-> body_link_at(scanText, pos[1], pos[2])]
    /\ UNCHANGED << runtimeVars, scanText, callIn, callOut >>

scan_link_at_position(pos) ==
    /\ scanOut = None
    /\ scanOut' = [call |-> "link_at_position",
                   result |-> link_at_position(scanText, pos[1], pos[2])]
    /\ UNCHANGED << runtimeVars, scanText, callIn, callOut >>

NextScan ==
    \/ scan_find_body_links
    \/ \E pos \in ScanPositions(scanText) : scan_body_link_at(pos)
    \/ \E pos \in ScanPositions(scanText) : scan_link_at_position(pos)

SpecScan == InitScan /\ [][NextScan]_vars

-----------------------------------------------------------------------------
(* collection_utils.rs: link resolution.  Paths, targets and extensions    *)
(* are strings, that is sequences of chars.  The collection has the        *)
(* default settings (types folder "_types", cache folder ".mdbase", no     *)
(* exclude patterns, subfolders included) but for settings.extensions.     *)

EndsWith(s, p) == Len(p) <= Len(s) /\ SubSeq(s, Len(s) - Len(p) + 1, Len(s)) = p

Contains(s, c) == \E k \in DOMAIN s : s[k] = c

\* str::to_lowercase, on the letters of the model
ToLower(s) == [k \in DOMAIN s |-> IF s[k] = "A" THEN "a" ELSE s[k]]

\* str::rfind(c): the index of the last c, or -1
RFind(s, c) ==
    IF Contains(s, c)
    THEN CHOOSE k \in 0 .. (Len(s) - 1) :
            /\ Ch(s, k) = c
            /\ \A j \in (k + 1) .. (Len(s) - 1) : Ch(s, j) # c
    ELSE -1

\* str::split(c)
RECURSIVE Split(_, _)
Split(s, c) ==
    IF Find(s, c) < 0 THEN << s >>
    ELSE << Slice(s, 0, Find(s, c)) >> \o Split(Slice(s, Find(s, c) + 1, Len(s)), c)

\* [&str]::join(sep)
RECURSIVE JoinWith(_, _)
JoinWith(parts, sep) ==
    IF parts = << >> THEN << >>
    ELSE IF Len(parts) = 1 THEN parts[1]
    ELSE parts[1] \o sep \o JoinWith(Tail(parts), sep)

\* Path::file_stem of a relative path with a file name
file_stem(rel) ==
    LET name == Slice(rel, RFind(rel, "/") + 1, Len(rel))
        dot  == RFind(name, ".")
    IN  IF dot <= 0 THEN name ELSE Slice(name, 0, dot)

\* Path::parent of a relative path with a file name
parent(rel) == IF RFind(rel, "/") < 0 THEN << >> ELSE Slice(rel, 0, RFind(rel, "/"))

\* Path::join of a relative directory and a relative path
PathJoin(dir, path) == IF dir = << >> THEN path ELSE dir \o << "/" >> \o path

DotMd == << ".", "m", "d" >>

TypesFolderName == << "_", "t", "y", "p", "e", "s" >>

CacheFolderName == << ".", "m", "d", "b", "a", "s", "e" >>

ConfigFileName == << "m", "d", "b", "a", "s", "e", ".", "y", "a", "m", "l" >>

\* is_valid_extension and has_known_extension (the same test)
has_known_extension(extensions, path) ==
    \/ EndsWith(path, DotMd)
    \/ \E n \in DOMAIN extensions : EndsWith(path, << "." >> \o extensions[n])

is_valid_extension(extensions, path) == has_known_extension(extensions, path)

\* is_excluded, for the default settings
is_excluded(rel_path) ==
    \/ StartsWith(rel_path, TypesFolderName \o << "/" >>) \/ rel_path = TypesFolderName
    \/ StartsWith(rel_path, CacheFolderName \o << "/" >>) \/ rel_path = CacheFolderName
    \/ rel_path = ConfigFileName

\* scan_collection_files: the admitted files among those the traversal of
\* the root meets, in the order it meets them, as relative paths
scan_collection_files(disk, extensions) ==
    SelectSeq(disk, LAMBDA rel : ~is_excluded(rel) /\ is_valid_extension(extensions, rel))

\* normalize_path_segments, on the segments still to read
RECURSIVE NormalizeFrom(_, _)
NormalizeFrom(segments, parts) ==
    IF segments = << >> THEN parts
    ELSE LET seg == Head(segments)
         IN  IF seg = << >> \/ seg = << "." >>
             THEN NormalizeFrom(Tail(segments), parts)
             ELSE IF seg = << ".", "." >>
             THEN IF parts = << >> \/ parts[Len(parts)] = << ".", "." >>
                  THEN NormalizeFrom(Tail(segments), Append(parts, seg))
                  ELSE NormalizeFrom(Tail(segments), SubSeq(parts, 1, Len(parts) - 1))
             ELSE NormalizeFrom(Tail(segments), Append(parts, seg))

normalize_path_segments(path) ==
    LET parts == NormalizeFrom(Split(path, "/"), << >>)
    IN  IF parts = << >> THEN << "." >> ELSE JoinWith(parts, << "/" >>)

\* resolve_link_target lines 212-223: the target without wikilink syntax,
\* alias and anchor
StripTarget(target) ==
    IF StartsWith(target, << "[", "[" >>) /\ EndsWith(target, << "]", "]" >>)
    THEN Trim(BeforeFirst(BeforeFirst(Slice(target, 2, Len(target) - 2), "|"), "#"))
    ELSE Trim(BeforeFirst(target, "#"))

\* resolve_link_target lines 242-252: the normalized candidate of a stripped
\* target
Candidate(target, source_rel_path) ==
    IF StartsWith(target, << ".", "/" >>) \/ StartsWith(target, << ".", ".", "/" >>)
    THEN normalize_path_segments(
            PathJoin(IF source_rel_path = None THEN << >>
                     ELSE parent(source_rel_path.some), target))
    ELSE IF StartsWith(target, << "/" >>) THEN Slice(target, 1, Len(target))
    ELSE target

\* The first element of a sequence that satisfies Test, or None.
FirstOf(seq, Test(_)) ==
    IF \E n \in DOMAIN seq : Test(seq[n])
    THEN Some(seq[CHOOSE n \in DOMAIN seq :
                    Test(seq[n]) /\ \A m \in 1 .. (n - 1) : ~Test(seq[m])])
    ELSE None

\* Extension inference tried on every candidate, whatever its extension.
AlwaysInferred(extensions, resolved) == TRUE

\* resolve_link_target lines 263-264: whether extensions are inferred
ExtensionInferred(extensions, resolved) ==
    \/ ~Contains(resolved, ".")
    \/ (~EndsWith(resolved, DotMd) /\ ~has_known_extension(extensions, resolved))

\* resolve_link_target: the relative path of the file returned (which the
\* code joins to collection.root), or None
resolve_link_target(disk, extensions, target0, source_rel_path) ==
    LET target   == StripTarget(target0)
        known    == scan_collection_files(disk, extensions)
        resolved == Candidate(target, source_rel_path)
        with_ext == FirstOf(extensions,
                            LAMBDA ext : Contains(known, resolved \o << "." >> \o ext))
        by_stem  == FirstOf(known,
                            LAMBDA rel : \/ file_stem(rel) = resolved
                                         \/ ToLower(file_stem(rel)) = ToLower(resolved))
    IN  IF target = << >> THEN None
        ELSE IF Contains(known, resolved) THEN Some(resolved)
        ELSE IF ExtensionInferred(extensions, resolved)
                /\ Contains(known, resolved \o DotMd)
        THEN Some(resolved \o DotMd)
        ELSE IF ExtensionInferred(extensions, resolved) /\ with_ext # None
        THEN Some(resolved \o << "." >> \o with_ext.some)
        ELSE IF ~Contains(resolved, "/") THEN by_stem
        ELSE None

-----------------------------------------------------------------------------
(* text.rs and code_actions.rs: the frontmatter block of a text and the    *)
(* quick-fix edit.  A text is the sequence of its lines (str::lines), a    *)
(* position is << line, character >>, a range << start, end >>.            *)

Newline == "\n"

Dashes == << "-", "-", "-" >>

\* str::len of a line: its length in bytes
ByteLen(s) == Len(s) + 3 * Cardinality({ k \in DOMAIN s : s[k] = Astral })

\* text.rs lines 46-64: None, or Some(<< first interior line, last interior
\* line >>) of the block that the first line opens
frontmatter_bounds(text) ==
    IF text = << >> THEN None
    ELSE IF TrimEnd(text[1]) # Dashes THEN None
    ELSE LET close == FirstOf([k \in 1 .. (Len(text) - 1) |-> k],
                              LAMBDA k : TrimEnd(text[k + 1]) = Dashes)
         IN  IF close = None THEN None
             ELSE IF close.some <= 0 + 1 THEN None
             ELSE Some(<< 0 + 1, close.some - 1 >>)

\* text.rs lines 99-103: the line names the field
FieldLine(line, field) ==
    LET trimmed == TrimStart(line)
    IN  /\ StartsWith(trimmed, field)
        /\ StartsWith(TrimStart(Slice(trimmed, Len(field), Len(trimmed))), << ":" >>)

\* text.rs lines 87-120
find_field_range(text, field, fallback_line) ==
    LET bounds == frontmatter_bounds(text)
        found  == IF bounds = None THEN None
                  ELSE FirstOf([k \in 1 .. Len(text) |-> k - 1],
                               LAMBDA line_idx :
                                   /\ line_idx >= bounds.some[1]
                                   /\ line_idx <= bounds.some[2]
                                   /\ FieldLine(text[line_idx + 1], field))
    IN  IF found # None
        THEN LET line      == text[found.some + 1]
                 start_col == ByteLen(line) - ByteLen(TrimStart(line))
             IN  << << found.some, start_col >>,
                    << found.some, start_col + ByteLen(field) >> >>
        ELSE << << fallback_line, 0 >>, << fallback_line, 0 >> >>

TextEdit(range, new_text) == [range |-> range, new_text |-> new_text]

\* code_actions.rs lines 104-147
field_edit(text, field_name, replacement_line) ==
    LET bounds        == frontmatter_bounds(text)
        fallback_line == IF bounds = None THEN 0 ELSE bounds.some[1]
        found         == find_field_range(text, field_name, fallback_line)
        line_idx      == found[1][1]
        line_text     == IF line_idx < Len(text) THEN text[line_idx + 1] ELSE << >>
    IN  IF found[1] = found[2]
        THEN IF bounds # None
             THEN TextEdit(<< << bounds.some[2] + 1, 0 >>, << bounds.some[2] + 1, 0 >> >>,
                           IF replacement_line = << >>
                           THEN field_name \o << ":", " ", Newline >>
                           ELSE replacement_line \o << Newline >>)
             ELSE TextEdit(<< << 0, 0 >>, << 0, 0 >> >>,
                           IF replacement_line = << >>
                           THEN Dashes \o << Newline >> \o field_name
                                    \o << ":", " ", Newline >> \o Dashes \o << Newline >>
                           ELSE Dashes \o << Newline >> \o replacement_line
                                    \o << Newline >> \o Dashes \o << Newline >>)
        ELSE TextEdit(<< << line_idx, 0 >>, << line_idx, ByteLen(line_text) >> >>,
                      IF replacement_line = << >>
                      THEN field_name \o << ":", " " >>
                      ELSE replacement_line)

-----------------------------------------------------------------------------
(* references.rs: the symbol under the cursor, its references and rename.  *)
(* The collection is a list of files, each a path and its text (the open   *)
(* document or the file on disk); a panic of a scanner is a panic of the   *)
(* provider.                                                               *)

\* text.rs lines 66-71
is_in_frontmatter(text, line) ==
    /\ frontmatter_bounds(text) # None
    /\ line >= frontmatter_bounds(text).some[1]
    /\ line <= frontmatter_bounds(text).some[2]

\* text.rs lines 275-306
value_from_frontmatter_line(line, column) ==
    LET trimmed    == TrimStart(line)
        leading    == ByteLen(line) - ByteLen(trimmed)
        colon_idx  == Find(trimmed, ":")
        after_dash == Slice(trimmed, 1, Len(trimmed))
    IN  IF colon_idx >= 0
        THEN IF /\ column > leading + ByteLen(Slice(trimmed, 0, colon_idx))
                /\ Trim(Slice(trimmed, colon_idx + 1, Len(trimmed))) # << >>
             THEN Some(Trim(Slice(trimmed, colon_idx + 1, Len(trimmed))))
             ELSE None
        ELSE IF StartsWith(trimmed, << "-" >>)
        THEN IF column > leading /\ Trim(after_dash) # << >>
             THEN Some(Trim(after_dash))
             ELSE None
        ELSE None

\* str::find("]("): the index of the first occurrence, or -1
FindCloseOpen(s) ==
    LET at(k) == Ch(s, k) = "]" /\ Ch(s, k + 1) = "("
    IN  IF \E k \in 0 .. (Len(s) - 2) : at(k)
        THEN CHOOSE k \in 0 .. (Len(s) - 2) : at(k) /\ \A j \in 0 .. (k - 1) : ~at(j)
        ELSE -1

\* collection_utils.rs lines 315-356
parse_link_value(value0) ==
    LET value       == Trim(value0)
        inner       == Slice(value, 2, Len(value) - 2)
        wiki        == Trim(BeforeFirst(BeforeFirst(inner, "|"), "#"))
        bracket_end == FindCloseOpen(value)
        path        == Trim(Slice(value, bracket_end + 2, Len(value) - 1))
    IN  IF value = << >> THEN None
        ELSE IF StartsWith(value, << "[", "[" >>) /\ EndsWith(value, << "]", "]" >>)
        THEN (IF wiki = << >> THEN None ELSE Some(wiki))
        ELSE IF /\ StartsWith(value, << "[" >>)
                /\ bracket_end >= 0
                /\ EndsWith(value, << ")" >>)
        THEN (IF path # << >> /\ ~IsExternal(path) /\ BeforeFirst(path, "#") # << >>
              THEN Some(BeforeFirst(path, "#"))
              ELSE None)
        ELSE IF IsExternal(value) THEN None
        ELSE Some(value)

SymbolAtCursor(target, range) == [target |-> target, range |-> range]

FoundRef(range, format, alias, anchor) ==
    [range |-> range, format |-> format, alias |-> alias, anchor |-> anchor]

Paths(files) == [n \in DOMAIN files |-> files[n].path]

\* state.document_text(uri).or_else(read_to_string).unwrap_or_default()
TextOf(files, rel) ==
    IF \E n \in DOMAIN files : files[n].path = rel
    THEN files[CHOOSE n \in DOMAIN files : files[n].path = rel].text
    ELSE << >>

\* references.rs lines 125-169
symbol_at_position(files, extensions, text, source_rel, position) ==
    LET line      == position[1]
        col       == position[2]
        resolve(t) == resolve_link_target(Paths(files), extensions, t, Some(source_rel))
        Symbol(resolved, range) ==
            IF resolved = None THEN Returned(None)
            ELSE Returned(Some(SymbolAtCursor(resolved.some, range)))
        OfValue(value, line_text) ==
            LET OfParsed(parsed) ==
                    IF parsed = None THEN Returned(None)
                    ELSE Symbol(resolve(parsed.some),
                                << << line, 0 >>, << line, ByteLen(line_text) >> >>)
            IN  IF value = None THEN Returned(None)
                ELSE OfParsed(parse_link_value(value.some))
        OfLink(link) ==
            IF link.panic THEN Panicked
            ELSE IF link.value # None
            THEN Symbol(resolve(link.value.some.target),
                        << << link.value.some.start_line, link.value.some.start_col >>,
                           << link.value.some.end_line, link.value.some.end_col >> >>)
            ELSE IF ~is_in_frontmatter(text, line) THEN Returned(None)
            ELSE IF line >= Len(text) THEN Returned(None)
            ELSE OfValue(value_from_frontmatter_line(text[line + 1], col), text[line + 1])
    IN  OfLink(body_link_at(text, line, col))

\* references.rs lines 171-235
find_references_in_text(files, extensions, text, source_rel, target_rel) ==
    LET Refers(t) ==
            resolve_link_target(Paths(files), extensions, t, Some(source_rel))
                = Some(target_rel)
        RefersValue(value) ==
            LET RefersParsed(parsed) == parsed # None /\ Refers(parsed.some)
            IN  value # None /\ RefersParsed(parse_link_value(value.some))
        OfLines(links, bounds) ==
            LET hits  == SelectSeq(links.value, LAMBDA link : Refers(link.target))
                lines == IF bounds = None THEN << >>
                         ELSE SelectSeq([k \in 1 .. Len(text) |-> k - 1],
                                        LAMBDA line_idx :
                                            /\ line_idx >= bounds.some[1]
                                            /\ line_idx <= bounds.some[2]
                                            /\ RefersValue(value_from_frontmatter_line(
                                                    text[line_idx + 1],
                                                    ByteLen(text[line_idx + 1]))))
            IN  IF links.panic THEN Panicked
                ELSE Returned(
                        [n \in DOMAIN hits |->
                            FoundRef(<< << hits[n].start_line, hits[n].start_col >>,
                                        << hits[n].end_line, hits[n].end_col >> >>,
                                     hits[n].format, hits[n].alias, hits[n].anchor)]
                        \o [n \in DOMAIN lines |->
                            FoundRef(<< << lines[n], 0 >>,
                                        << lines[n], ByteLen(text[lines[n] + 1]) >> >>,
                                     "FrontmatterValue", None, None)])
    IN  OfLines(find_body_links(text), frontmatter_bounds(text))

\* The replacement of a markdown link without its anchor.
ReplacementDropsAnchor(found, new_target) ==
    IF found.format = "Wikilink"
    THEN << "[", "[" >> \o new_target
            \o (IF found.anchor # None THEN << "#" >> \o found.anchor.some ELSE << >>)
            \o (IF found.alias # None THEN << "|" >> \o found.alias.some ELSE << >>)
            \o << "]", "]" >>
    ELSE IF found.format = "Markdown"
    THEN << "[" >> \o (IF found.alias # None THEN found.alias.some
                       ELSE << "l", "i", "n", "k" >>)
            \o << "]", "(" >> \o new_target \o << ")" >>
    ELSE new_target

\* references.rs lines 237-262
replacement_for_ref(found, new_target) ==
    LET anchored == new_target
                        \o (IF found.anchor # None THEN << "#" >> \o found.anchor.some
                            ELSE << >>)
    IN  IF found.format = "Wikilink"
        THEN (IF found.alias # None
              THEN << "[", "[" >> \o anchored \o << "|" >> \o found.alias.some
                      \o << "]", "]" >>
              ELSE << "[", "[" >> \o anchored \o << "]", "]" >>)
        ELSE IF found.format = "Markdown"
        THEN << "[" >> \o (IF found.alias # None THEN found.alias.some
                           ELSE << "l", "i", "n", "k" >>)
                \o << "]", "(" >> \o anchored \o << ")" >>
        ELSE new_target

\* references.rs lines 45-60
prepare_rename(files, extensions, source_rel, position) ==
    LET OfSymbol(symbol) ==
            IF symbol.panic THEN Panicked
            ELSE IF symbol.value = None THEN Returned(None)
            ELSE Returned(Some([range |-> symbol.value.some.range,
                                placeholder |-> symbol.value.some.target]))
    IN  OfSymbol(symbol_at_position(files, extensions, TextOf(files, source_rel),
                                    source_rel, position))

\* references.rs lines 62-102: the changes of the workspace edit, as the set
\* of the files with references, each with its edits in order
rename(files, extensions, source_rel, position, new_name) ==
    LET scanned == scan_collection_files(Paths(files), extensions)
        OfRefs(refs) ==
            IF \E n \in DOMAIN scanned : refs[n].panic THEN Panicked
            ELSE Returned(Some(
                    { [path |-> scanned[n],
                       edits |-> [k \in DOMAIN refs[n].value |->
                                    TextEdit(refs[n].value[k].range,
                                             replacement_for_ref(refs[n].value[k],
                                                                 new_name))]] :
                        n \in { m \in DOMAIN scanned : refs[m].value # << >> } }))
        OfSymbol(symbol) ==
            IF symbol.panic THEN Panicked
            ELSE IF symbol.value = None THEN Returned(None)
            ELSE OfRefs([n \in DOMAIN scanned |->
                            find_references_in_text(files, extensions,
                                                    TextOf(files, scanned[n]), scanned[n],
                                                    symbol.value.some.target)])
    IN  OfSymbol(symbol_at_position(files, extensions, TextOf(files, source_rel),
                                    source_rel, position))

-----------------------------------------------------------------------------
(* diagnostics.rs: compute.  An issue is a JSON object, here a record whose *)
(* keys are None when absent; `validated` tells whether validate_op ran.    *)

Diagnostic(range, severity, code, message, data) ==
    [range |-> range, severity |-> severity, code |-> code, source |-> "mdbase",
     message |-> message, data |-> data]

InvalidFrontmatter(message) ==
    Diagnostic(<< << 0, 0 >>, << 0, 0 >> >>, "ERROR", "invalid_frontmatter", message, None)

\* diagnostics.rs lines 150-158
SeverityOf(issue) ==
    IF issue.severity = Some("warning") THEN "WARNING"
    ELSE IF issue.severity = Some("info") THEN "INFORMATION"
    ELSE "ERROR"

\* diagnostics.rs lines 141-179
diagnostic_from_issue(text, fallback_line, issue) ==
    Diagnostic(IF issue.field # None
               THEN find_field_range(text, issue.field.some, fallback_line)
               ELSE << << fallback_line, 0 >>, << fallback_line, 0 >> >>,
               SeverityOf(issue),
               IF issue.code # None THEN issue.code.some ELSE "unknown",
               IF issue.message # None THEN issue.message.some ELSE "Validation issue",
               Some(issue))

\* diagnostics.rs lines 131-139
diagnostics_from_issues(text, issues) ==
    LET fallback_line == IF frontmatter_bounds(text) = None THEN 0
                         ELSE frontmatter_bounds(text).some[1]
    IN  [n \in DOMAIN issues |-> diagnostic_from_issue(text, fallback_line, issues[n])]

\* diagnostics.rs lines 89-129; `issues` is what validate_op returns for the
\* document when it is called
compute(issues, text, parsed) ==
    IF parsed.parse_error
    THEN [diagnostics |-> << InvalidFrontmatter("Failed to parse YAML frontmatter") >>,
          validated |-> FALSE]
    ELSE IF parsed.mapping_error
    THEN [diagnostics |-> << InvalidFrontmatter("Frontmatter must be a YAML mapping") >>,
          validated |-> FALSE]
    ELSE [diagnostics |-> diagnostics_from_issues(text, issues), validated |-> TRUE]

-----------------------------------------------------------------------------
(* server.rs: will_save_wait_until.  The types matched by the document are *)
(* given as the list of their field lists (determine_types_for_path and    *)
(* collection.types), the time as the formatted timestamp.                 *)

\* chrono::Utc::now().format("%Y-%m-%dT%H:%M:%SZ")
Timestamp == << "T", "Z" >>

\* server.rs lines 358-372: the first interior line that sets the field
NowLine(text, bounds, field_name) ==
    FirstOf([k \in 1 .. Len(text) |-> k - 1],
            LAMBDA line_idx :
                /\ line_idx >= bounds.some[1]
                /\ line_idx <= bounds.some[2]
                /\ StartsWith(TrimStart(text[line_idx + 1]), field_name \o << ":" >>))

\* server.rs lines 345-382
make_now_on_write_edit(text, bounds, field_name, value) ==
    IF bounds = None THEN None
    ELSE LET found == NowLine(text, bounds, field_name)
         IN  IF found # None
             THEN Some(TextEdit(<< << found.some, 0 >>,
                                   << found.some, ByteLen(text[found.some + 1]) >> >>,
                                field_name \o << ":", " " >> \o value))
             ELSE Some(TextEdit(<< << bounds.some[2] + 1, 0 >>,
                                   << bounds.some[2] + 1, 0 >> >>,
                                field_name \o << ":", " " >> \o value \o << Newline >>))

\* server.rs lines 201-215: the now_on_write fields of the matched types,
\* each once, in the order met
RECURSIVE NowFields(_, _)
NowFields(fields, now_fields) ==
    IF fields = << >> THEN now_fields
    ELSE NowFields(Tail(fields),
                   IF /\ Head(fields).generated = Some("now_on_write")
                      /\ \A n \in DOMAIN now_fields : now_fields[n] # Head(fields).name
                   THEN Append(now_fields, Head(fields).name)
                   ELSE now_fields)

\* server.rs lines 173-232; doc_text is None for a document that is not open
will_save_wait_until(ends_with_md, has_collection, doc_text, parsed, types) ==
    LET text       == doc_text.some
        now_fields == NowFields(Concat(types), << >>)
        bounds     == frontmatter_bounds(text)
        made       == [n \in DOMAIN now_fields |->
                          make_now_on_write_edit(text, bounds, now_fields[n], Timestamp)]
        some_edits == SelectSeq(made, LAMBDA e : e # None)
        edits      == [n \in DOMAIN some_edits |-> some_edits[n].some]
    IN  IF ~ends_with_md THEN None
        ELSE IF ~has_collection THEN None
        ELSE IF doc_text = None THEN None
        ELSE IF parsed.parse_error \/ parsed.mapping_error THEN None
        ELSE IF now_fields = << >> THEN None
        ELSE IF edits = << >> THEN None
        ELSE Some(edits)

-----------------------------------------------------------------------------
(* commands.rs: what create_file hands to collection.create.  A JSON       *)
(* object is a function from its keys; collection.types is a function from *)
(* the type names; a filename pattern is the list of its literal parts and *)
(* its {field} placeholders.                                               *)

Insert(obj, key, value) ==
    [k \in DOMAIN obj \cup { key } |-> IF k = key THEN value ELSE obj[k]]

EmptyObject == [k \in {} |-> None]

JsonObject(map) == [kind |-> "object", map |-> map]

JsonString == [kind |-> "string", map |-> EmptyObject]

\* commands.rs lines 200-229: None, or Some(value) for ulid, uuid and now
RECURSIVE generate_field_value(_, _, _)
generate_field_value(types, type_name, field_name) ==
    IF type_name \notin DOMAIN types THEN None
    ELSE LET type_def == types[type_name]
             field_def == FirstOf(type_def.fields, LAMBDA d : d.name = field_name)
         IN  IF field_def # None /\ field_def.some.generated # None
             THEN (IF field_def.some.generated.some \in { "ulid", "uuid", "now" }
                   THEN Some(<< field_def.some.generated.some >>)
                   ELSE None)
             ELSE IF type_def.extends = None THEN None
             ELSE generate_field_value(types, type_def.extends.some, field_name)

\* commands.rs lines 167-182
RECURSIVE has_generated_in_chain(_, _, _)
has_generated_in_chain(types, type_name, field_name) ==
    IF type_name \notin DOMAIN types THEN FALSE
    ELSE LET type_def == types[type_name]
             field_def == FirstOf(type_def.fields, LAMBDA d : d.name = field_name)
         IN  IF field_def # None /\ field_def.some.generated # None THEN TRUE
             ELSE IF type_def.extends = None THEN FALSE
             ELSE has_generated_in_chain(types, type_def.extends.some, field_name)

\* commands.rs lines 185-196
RECURSIVE find_filename_pattern(_, _)
find_filename_pattern(types, type_name) ==
    IF type_name \notin DOMAIN types THEN None
    ELSE IF types[type_name].filename_pattern # None THEN types[type_name].filename_pattern
    ELSE IF types[type_name].extends = None THEN None
    ELSE find_filename_pattern(types, types[type_name].extends.some)

\* commands.rs lines 231-250
RECURSIVE derive_path_from_pattern(_, _)
derive_path_from_pattern(pattern, fm) ==
    IF pattern = << >> THEN Some(<< >>)
    ELSE LET part == Head(pattern)
             rest == derive_path_from_pattern(Tail(pattern), fm)
         IN  IF part.field = None
             THEN (IF rest = None THEN None ELSE Some(part.text \o rest.some))
             ELSE IF part.field.some \notin DOMAIN fm THEN None
             ELSE IF rest = None THEN None
             ELSE Some(fm[part.field.some] \o rest.some)

\* commands.rs lines 117-124: the generated values of the fields of the type
\* that the frontmatter lacks
RECURSIVE Pregenerate(_, _, _, _)
Pregenerate(types, tn_lower, fields, fm_obj) ==
    IF fields = << >> THEN fm_obj
    ELSE LET field_name == Head(fields).name
             value      == generate_field_value(types, tn_lower, field_name)
         IN  Pregenerate(types, tn_lower, Tail(fields),
                         IF field_name \in DOMAIN fm_obj \/ value = None THEN fm_obj
                         ELSE Insert(fm_obj, field_name, value.some))

\* commands.rs lines 83-147: None without a collection, or Some(input) for
\* the input that collection.create receives.  A JSON value is JsonObject of
\* its map, or a value of another kind.
create_input(has_collection, types, input) ==
    LET tn_lower == ToLower(input.type.some)
        fm       == IF input.frontmatter # None THEN input.frontmatter
                    ELSE IF input.fields # None THEN input.fields
                    ELSE Some(JsonObject(EmptyObject))
        fm_obj   == Pregenerate(types, tn_lower, types[tn_lower].fields,
                                IF fm.some.kind = "object" THEN fm.some.map
                                ELSE EmptyObject)
        has_path == input.path # None /\ input.path.some # << >>
        pattern  == find_filename_pattern(types, tn_lower)
        path     == IF pattern = None THEN None
                    ELSE derive_path_from_pattern(pattern.some, fm_obj)
    IN  IF ~has_collection THEN None
        ELSE IF input.type = None THEN Some(input)
        ELSE IF tn_lower \notin DOMAIN types THEN Some(input)
        ELSE Some([input EXCEPT
                     !.path = IF ~has_path /\ path # None THEN path ELSE @,
                     !.frontmatter = Some(JsonObject(fm_obj))])

-----------------------------------------------------------------------------
(* symbols.rs.  A FileEntry is a record of rel_path, types, tags,          *)
(* display_name, title and id; matches_query reads no field of the entry   *)
(* for the empty query.                                                    *)

\* str::contains(&str)
ContainsStr(s, p) ==
    \E k \in 0 .. (Len(s) - Len(p)) : SubSeq(s, k + 1, k + Len(p)) = p

\* str::eq_ignore_ascii_case
eq_ignore_ascii_case(a, b) == ToLower(a) = ToLower(b)

\* Option<String>::unwrap_or_default
unwrap_or_default(opt) == IF opt = None THEN << >> ELSE opt.some

KeyType  == << "t", "y", "p", "e" >>
KeyTag   == << "t", "a", "g" >>
KeyId    == << "i", "d" >>
KeyTitle == << "t", "i", "t", "l", "e" >>

\* symbols::matches_query
matches_query(entry, query) ==
    LET colon == Find(query, ":")
        k     == Trim(Slice(query, 0, colon))
        value == Trim(Slice(query, colon + 1, Len(query)))
        haystack ==
            ToLower(entry.rel_path \o << " " >> \o unwrap_or_default(entry.display_name)
                    \o << " " >> \o unwrap_or_default(entry.title)
                    \o << " " >> \o JoinWith(entry.types, << " " >>)
                    \o << " " >> \o JoinWith(entry.tags, << " " >>))
    IN  IF query = << >> THEN TRUE
        ELSE IF colon >= 0
        THEN CASE k = KeyType ->
                    \E n \in DOMAIN entry.types : eq_ignore_ascii_case(entry.types[n], value)
               [] k = KeyTag ->
                    \E n \in DOMAIN entry.tags : eq_ignore_ascii_case(entry.tags[n], value)
               [] k = KeyId ->
                    entry.id # None /\ eq_ignore_ascii_case(entry.id.some, value)
               [] k = KeyTitle ->
                    entry.title # None /\ ContainsStr(ToLower(entry.title.some), value)
               [] OTHER -> FALSE
        ELSE ContainsStr(haystack, query)

\* symbols::workspace_symbols: the symbols returned, in index order.  The
\* location is the file of the entry (uri_from_rel_path), at line 0.
workspace_symbols(has_collection, entries, query) ==
    LET normalized == ToLower(Trim(query))
        matches    == SelectSeq(entries, LAMBDA e : matches_query(e, normalized))
    IN  IF ~has_collection THEN None
        ELSE Some([n \in DOMAIN matches |->
                [name |-> IF matches[n].display_name = None THEN matches[n].rel_path
                          ELSE matches[n].display_name.some,
                 location |-> [rel_path |-> matches[n].rel_path,
                               range |-> << << 0, 0 >>, << 0, 0 >> >>],
                 container_name |->
                     IF matches[n].types = << >> THEN matches[n].rel_path
                     ELSE matches[n].rel_path \o << " ", "(" >>
                            \o JoinWith(matches[n].types, << ",", " " >>) \o << ")" >>]])

\* symbols::query_collection; the matches stand for their JSON projections
query_collection(entries, query) ==
    LET normalized == ToLower(Trim(query))
        matches    == SelectSeq(entries, LAMBDA e : matches_query(e, normalized))
    IN  [kind |-> "query", query |-> query, count |-> Len(matches),
         matches |-> matches]

-----------------------------------------------------------------------------
(* server.rs, did_change: the content changes on the rope.  The rope is    *)
(* the sequence of its chars, line breaks included; a change is a record   *)
(* of range (None for a full replacement) and text.                        *)

\* Rope::line_to_char: the char index of the start of the line.  It panics
\* for a line beyond len_lines, which is the number of line breaks + 1.
line_to_char(rope, line) ==
    LET breaks    == { k \in DOMAIN rope : rope[k] = Newline }
        len_lines == Cardinality(breaks) + 1
    IN  IF line > len_lines THEN Panicked
        ELSE IF line = len_lines THEN Returned(Len(rope))
        ELSE IF line = 0 THEN Returned(0)
        ELSE Returned(CHOOSE k \in breaks :
                          Cardinality({ j \in breaks : j <= k }) = line)

\* offset_from_position (lines 337-341)
offset_from_position(rope, pos) ==
    LET line_start == line_to_char(rope, pos[1])
    IN  IF line_start.panic THEN Panicked
        ELSE Returned(line_start.value + pos[2])

\* One content change (lines 135-144).  Rope::remove panics unless
\* start <= end <= len_chars.
apply_change(rope, change) ==
    LET OfOffsets(start, end) ==
            IF start.panic \/ end.panic THEN Panicked
            ELSE IF ~SliceOk(rope, start.value, end.value) THEN Panicked
            ELSE Returned(Slice(rope, 0, start.value) \o change.text
                            \o Slice(rope, end.value, Len(rope)))
    IN  IF change.range = None THEN Returned(change.text)
        ELSE OfOffsets(offset_from_position(rope, change.range.some[1]),
                       offset_from_position(rope, change.range.some[2]))

\* for change in params.content_changes
RECURSIVE apply_changes(_, _)
apply_changes(rope, changes) ==
    LET OfFirst(first) ==
            IF first.panic THEN Panicked
            ELSE apply_changes(first.value, Tail(changes))
    IN  IF changes = << >> THEN Returned(rope)
        ELSE OfFirst(apply_change(rope, Head(changes)))

-----------------------------------------------------------------------------
(* goto.rs: go-to-definition in the document body.                         *)

\* make_location_response: line 0 of the file
Location(rel) == [rel_path |-> rel, range |-> << << 0, 0 >>, << 0, 0 >> >>]

\* definition_in_body (lines 47-58)
definition_in_body(disk, extensions, text, line_idx, column, rel_path) ==
    LET OfResolved(resolved) ==
            IF resolved = None THEN Returned(None)
            ELSE Returned(Some(Location(resolved.some)))
        OfLink(link) ==
            IF link.panic THEN Panicked
            ELSE IF link.value = None THEN Returned(None)
            ELSE OfResolved(resolve_link_target(disk, extensions,
                                                link.value.some.target, rel_path))
    IN  OfLink(link_at_position(text, line_idx, column))

-----------------------------------------------------------------------------
(* SpecCall: one call of a function of the providers.                      *)

\* The files of the collection directory a behaviour may find on disk.
FileA == << "a", ".", "m", "d" >>

FileDirA == << "d", "/", "A", ".", "m", "d" >>

FileDirAMdMd == << "d", "/", "a", ".", "m", "d", ".", "m", "d" >>

FileTxt == << "b", ".", "t", "x", "t" >>

FileType == TypesFolderName \o << "/", "a", ".", "m", "d" >>

FileDotMd == << ".", "m", "d" >>

\* read_dir meets the files in one order or the other.
DiskOrders ==
    { << FileA, FileDirA, FileDirAMdMd, FileTxt, FileType, FileDotMd >>,
      << FileDotMd, FileType, FileTxt, FileDirAMdMd, FileDirA, FileA >> }

\* The collection holds no file, one file, or all the files but at most one.
Disks ==
    { SelectSeq(order, LAMBDA f : f \in present) :
        order \in DiskOrders,
        present \in { files \in SUBSET { FileA, FileDirA, FileDirAMdMd, FileTxt,
                                         FileType, FileDotMd } :
                         Cardinality(files) \in { 0, 1, 5, 6 } } }

\* settings.extensions
ExtensionLists == { << >>, << << "t", "x", "t" >> >> }

LinkTargets ==
    { << >>,
      << "a" >>, << "A" >>, << "x" >>, << "b" >>,
      << "a", ".", "m", "d" >>,
      << "b", ".", "t", "x", "t" >>,
      << "d", "/", "A" >>, << "d", "/", "a" >>,
      << "d", "/", "a", ".", "m", "d" >>,
      << ".", "/", "a" >>, << ".", ".", "/", "a" >>, << "/", "a" >>,
      << "a", "#", "h" >>,
      << "[", "[", "a", "|", "t", "]", "]" >>,
      TypesFolderName \o << "/", "a" >> }

SourcePaths == { None, Some(<< "s", ".", "m", "d" >>), Some(<< "d", "/", "s", ".", "m", "d" >>) }

ResolveInputs ==
    { [fn |-> "resolve_link_target", disk |-> disk, extensions |-> extensions,
       target |-> target, source |-> source] :
        disk \in Disks, extensions \in ExtensionLists,
        target \in LinkTargets, source \in SourcePaths }

FileT == << "b", ".", "t" >>

\* A bare name that two configured extensions complete, for either order
\* of the settings and of the files.
ResolveOrderInputs ==
    { [fn |-> "resolve_link_target", disk |-> disk, extensions |-> extensions,
       target |-> << "b" >>, source |-> None] :
        disk \in { << FileT, FileTxt >>, << FileTxt, FileT >> },
        extensions \in { << << "t" >>, << "t", "x", "t" >> >>,
                         << << "t", "x", "t" >>, << "t" >> >> } }

\* The lines of the texts given to the frontmatter functions.
FmLines ==
    { Dashes, Dashes \o << " " >>, << "a", ":", " ", "x" >>, << " ", "a", " ", ":" >>,
      << "b", ":" >>, << "x" >> }

FmTexts ==
    { << >> } \cup { << l >> : l \in FmLines }
        \cup { << l, m >> : l \in { Dashes, << "x" >> }, m \in FmLines }
        \cup { << Dashes, l, m >> : l, m \in FmLines }
        \cup { << Dashes, l, m, Dashes >> : l, m \in FmLines }

FieldNames == { << "a" >>, << "c" >> }

FieldEditInputs ==
    { [fn |-> "field_edit", text |-> text, field |-> field, replacement |-> replacement] :
        text \in FmTexts, field \in FieldNames,
        replacement \in { << >>, << "a", ":", " ", "y" >> } }

\* The lines of the documents given to rename: links to a.md in every form.
RenameLines ==
    { << "[", "[", "a", "]", "]" >>,
      << "[", "[", "a", "#", "h", "|", "t", "]", "]" >>,
      << "[", "[", "a", ".", "m", "d", "]", "]" >>,
      << "[", "t", "]", "(", "a", ".", "m", "d", "#", "h", ")" >>,
      << "[", "]", "(", "a", ".", "m", "d", ")" >>,
      << "r", ":", " ", "[", "[", "a", "]", "]" >>,
      << "r", ":", " ", "a", ".", "m", "d" >>,
      << "x" >>, Dashes }

RenameTexts ==
    { << l >> : l \in RenameLines }
        \cup { << l, m >> : l \in { << "[", "[", "a", "#", "h", "|", "t", "]", "]" >>,
                                    << "x" >> },
                            m \in RenameLines }
        \cup { << Dashes, l, Dashes, m >> :
                  l \in { << "r", ":", " ", "[", "[", "a", "]", "]" >>,
                          << "r", ":", " ", "a", ".", "m", "d" >> },
                  m \in { << "[", "[", "a", ".", "m", "d", "]", "]" >>,
                          << "[", "t", "]", "(", "a", ".", "m", "d", "#", "h", ")" >>,
                          << "x" >> } }

FileS == << "s", ".", "m", "d" >>

\* The collection of rename: a.md, which links to itself, and the document.
RenameFiles(text) ==
    << [path |-> FileA, text |-> << << "[", "[", "a", "|", "t", "]", "]" >> >>],
       [path |-> FileS, text |-> text] >>

RenamePositions == { << line, col >> : line \in { 0, 1, 3 }, col \in { 0, 3 } }

NewNames == { FileA, << "n" >> }

RenameInputs ==
    { [fn |-> "rename", files |-> RenameFiles(text), position |-> position,
       new_name |-> new_name] :
        text \in RenameTexts, position \in RenamePositions, new_name \in NewNames }
        \cup
    { [fn |-> "prepare_rename", files |-> RenameFiles(text), position |-> position] :
        text \in RenameTexts, position \in RenamePositions }

\* The documents given to compute: the field a, a field with a name outside
\* the Basic Multilingual Plane, both, or neither, in a block or without one.
ComputeTexts ==
    { << Dashes, l, m, Dashes >> :
        l \in { << "a", ":", " ", "x" >>, << "x" >> },
        m \in { << " ", "a", " ", ":" >>, << Astral, ":", " ", "x" >>,
                << " ", Astral, ":" >>, << "x" >> } }
        \cup { << >>, << Dashes, Dashes >>, << << "a", ":", " ", "x" >> >> }

Issues ==
    { [code |-> code, message |-> IF code = None THEN None ELSE Some("m"),
       severity |-> severity, field |-> field] :
        code \in { None, Some("missing_required") },
        severity \in { None, Some("error"), Some("warning"), Some("info") },
        field \in { None, Some(<< "a" >>), Some(<< Astral >>), Some(<< "c" >>) } }

IssueLists ==
    { << >> } \cup { << i >> : i \in Issues }
        \cup { << i, j >> :
                  i \in { k \in Issues : k.code = None /\ k.severity = Some("info") },
                  j \in { k \in Issues : k.code # None /\ k.severity = Some("warning") } }

ParsedFlags ==
    { [parse_error |-> FALSE, mapping_error |-> FALSE],
      [parse_error |-> TRUE, mapping_error |-> FALSE],
      [parse_error |-> FALSE, mapping_error |-> TRUE] }

ComputeInputs ==
    { [fn |-> "compute", issues |-> issues, text |-> text, parsed |-> parsed] :
        issues \in IssueLists, text \in ComputeTexts,
        parsed \in { [parse_error |-> FALSE, mapping_error |-> FALSE] } }
        \cup
    { [fn |-> "compute", issues |-> issues, text |-> text, parsed |-> parsed] :
        issues \in { i \in IssueLists : Len(i) # 1 }, text \in ComputeTexts,
        parsed \in ParsedFlags }

FieldDef(name, generated) == [name |-> name, generated |-> generated]

\* The field lists of the types that a document matches.
MatchedTypes ==
    LET stamped == << FieldDef(<< "a" >>, Some("now_on_write")), FieldDef(<< "b" >>, None) >>
        other   == << FieldDef(<< "a" >>, Some("now_on_write")),
                      FieldDef(<< "c" >>, Some("now_on_write")),
                      FieldDef(<< "x" >>, Some("ulid")) >>
    IN  { << >>, << stamped >>, << other >>, << stamped, other >>,
          << << FieldDef(<< "b" >>, Some("now")) >> >> }

WillSaveInputs ==
    { [fn |-> "will_save_wait_until", ends_with_md |-> g[1], has_collection |-> g[2],
       doc_text |-> IF g[3] THEN Some(text) ELSE None, parsed |-> g[4], types |-> types] :
        g \in { << TRUE, TRUE, TRUE, parsed >> : parsed \in ParsedFlags }
                \cup { << FALSE, TRUE, TRUE, [parse_error |-> FALSE, mapping_error |-> FALSE] >>,
                       << TRUE, FALSE, TRUE, [parse_error |-> FALSE, mapping_error |-> FALSE] >>,
                       << TRUE, TRUE, FALSE, [parse_error |-> FALSE, mapping_error |-> FALSE] >> },
        text \in { t \in FmTexts : Len(t) <= 3 }, types \in MatchedTypes }

SchemaField(name, field_type, required, default, generated) ==
    [name |-> name, field_type |-> field_type, required |-> required,
     default |-> default, generated |-> generated]

\* collection.types: the type b, and the type a that extends it and
\* redefines its field id without a strategy.
CollectionTypes ==
    [name \in { << "a" >>, << "b" >> } |->
        IF name = << "b" >>
        THEN [extends |-> None,
              filename_pattern |-> Some(<< [field |-> Some("id"), text |-> << >>],
                                          [field |-> None, text |-> DotMd] >>),
              fields |-> << SchemaField("id", "string", TRUE, None, Some("ulid")),
                            SchemaField("created", "string", TRUE, None, Some("now")) >>]
        ELSE [extends |-> Some(<< "b" >>),
              filename_pattern |-> None,
              fields |-> << SchemaField("id", "string", TRUE, None, None),
                            SchemaField("title", "string", TRUE, None, None),
                            SchemaField("tags", "list", TRUE, None, None),
                            SchemaField("done", "boolean", TRUE, None, None),
                            SchemaField("count", "integer", TRUE, None, None),
                            SchemaField("status", "string", TRUE, Some(<< "x" >>), None),
                            SchemaField("note", "string", FALSE, None, None),
                            SchemaField("updated", "string", TRUE, None,
                                        Some("now_on_write")) >>]]

SuppliedMaps ==
    { [k \in keys |-> << "v" >>] : keys \in SUBSET { "id", "title", "done", "other" } }

CreateInputs ==
    { [fn |-> "create_file", has_collection |-> has_collection,
       input |-> [type |-> type, path |-> path, frontmatter |-> supplied,
                  fields |-> fields]] :
        has_collection \in BOOLEAN,
        type \in { None, Some(<< "a" >>), Some(<< "A" >>), Some(<< "b" >>), Some(<< "c" >>) },
        path \in { None, Some(<< >>), Some(<< "p" >>) },
        supplied \in { None, Some(JsonString) }
                            \cup { Some(JsonObject(m)) : m \in SuppliedMaps },
        fields \in { None, Some(JsonObject([k \in { "title" } |-> << "w" >>])) } }

FileEntry(rel_path, types, tags, display_name, title, id) ==
    [rel_path |-> rel_path, types |-> types, tags |-> tags,
     display_name |-> display_name, title |-> title, id |-> id]

\* The entries of the index: a file without frontmatter fields, a typed and
\* tagged one, and one whose title holds a colon.
SymbolEntries ==
    << FileEntry(<< "a" >> \o DotMd, << >>, << >>, None, None, None),
       FileEntry(<< "b" >> \o DotMd, << << "A" >> >>, << << "b" >>, << "a" >> >>,
                 Some(<< "A", " ", "b" >>), Some(<< "A", " ", "b" >>), Some(<< "A" >>)),
       FileEntry(<< "c" >> \o DotMd, << << "b" >> >>, << >>,
                 Some(<< "a", ":", "b" >>), Some(<< "a", ":", "b" >>), None) >>

SymbolQueries ==
    { << >>, << " " >>, << "a" >>, << "A" >>, << "b" >>, << "A", " ", "b" >>, << "x" >>,
      << "a", ":", "b" >>, << "m", "d", " ", "a" >> }
    \cup { key \o << ":" >> \o x :
             key \in { KeyType, KeyTag, KeyId, KeyTitle },
             x \in { << >>, << "a" >>, << "A" >>, << " ", "b" >>, << "x" >> } }

SymbolInputs ==
    { [fn |-> "workspace_symbols", has_collection |-> has_collection,
       entries |-> SymbolEntries, query |-> query] :
        has_collection \in BOOLEAN, query \in SymbolQueries }

\* The document the editor has opened.
Ropes ==
    LET chars == { "a", Astral, Newline }
    IN  UNION { [1 .. n -> chars] : n \in 0 .. 3 }

\* The positions of the document an editor can name: on each line, the
\* UTF-16 columns that split no surrogate pair.
EditorPositions(rope) ==
    LET lines == Split(rope, Newline)
    IN  UNION { { << n - 1, utf16_col(lines[n], i) >> : i \in 0 .. Len(lines[n]) } :
                  n \in DOMAIN lines }

ContentChange(range, text) == [range |-> range, text |-> text]

\* One ranged or full change of the document, alone or followed by an
\* insertion at the start of the document.
ChangeInputs ==
    LET NotAfter(p, q) == p[1] < q[1] \/ (p[1] = q[1] /\ p[2] <= q[2])
        Ranged(rope) ==
            { ContentChange(Some(pq), text) :
                pq \in { r \in EditorPositions(rope) \X EditorPositions(rope) :
                           NotAfter(r[1], r[2]) },
                text \in { << >>, << "b" >> } }
        Full   == ContentChange(None, << Astral, "b" >>)
        AtZero == ContentChange(Some(<< << 0, 0 >>, << 0, 0 >> >>), << "c" >>)
        Of(rope) ==
            { [fn |-> "apply_changes", rope |-> rope, changes |-> changes] :
                changes \in { << c >> : c \in Ranged(rope) \cup { Full } }
                              \cup { << c, AtZero >> : c \in Ranged(rope) \cup { Full } } }
    IN  UNION { Of(rope) : rope \in Ropes }

\* Body lines with a link to the file a.md: plain, after a char outside
\* the BMP, in a code span, as an embed, as a markdown link; and a link to
\* a file the collection does not hold.
GotoLines ==
    LET wikilink == << "[", "[", "a", "]", "]" >>
    IN  { wikilink, << Astral >> \o wikilink, << Backtick >> \o wikilink \o << Backtick >>,
          << "!" >> \o wikilink, << "[", "t" >> \o LinkTail,
          << "[", "[", "x", "]", "]" >>, << "a" >> }

\* A line alone, inside a fenced block, and inside one and after it.
GotoTexts ==
    { << l >> : l \in GotoLines }
        \cup { << FenceLine, l >> : l \in GotoLines }
        \cup { << TildeLine, l, TildeLine, l >> : l \in GotoLines }

GotoInputs ==
    { [fn |-> "definition_in_body", text |-> text, position |-> position] :
        text \in GotoTexts, position \in (0 .. 3) \X (0 .. 8) }

CallInputs ==
    ResolveInputs \cup ResolveOrderInputs \cup FieldEditInputs \cup RenameInputs \cup ComputeInputs
        \cup WillSaveInputs \cup CreateInputs \cup SymbolInputs
        \cup ChangeInputs \cup GotoInputs

InitCall ==
    /\ RuntimeInit
    /\ typesFolder = "_types"
    /\ scope = NoteUri
    /\ scanText = << >>
    /\ scanOut = None
    /\ callIn \in CallInputs
    /\ callOut = None

Returns(value) ==
    /\ callOut = None
    /\ callOut' = [fn |-> callIn.fn, value |-> value]
    /\ UNCHANGED << runtimeVars, scanText, scanOut, callIn >>

call_resolve_link_target ==
    /\ callIn.fn = "resolve_link_target"
    /\ Returns(resolve_link_target(callIn.disk, callIn.extensions, callIn.target,
                                   callIn.source))

call_field_edit ==
    /\ callIn.fn = "field_edit"
    /\ Returns(field_edit(callIn.text, callIn.field, callIn.replacement))

call_prepare_rename ==
    /\ callIn.fn = "prepare_rename"
    /\ Returns(prepare_rename(callIn.files, << >>, FileS, callIn.position))

call_rename ==
    /\ callIn.fn = "rename"
    /\ Returns(rename(callIn.files, << >>, FileS, callIn.position, callIn.new_name))

call_compute ==
    /\ callIn.fn = "compute"
    /\ Returns(compute(callIn.issues, callIn.text, callIn.parsed))

call_will_save_wait_until ==
    /\ callIn.fn = "will_save_wait_until"
    /\ Returns(will_save_wait_until(callIn.ends_with_md, callIn.has_collection,
                                    callIn.doc_text, callIn.parsed, callIn.types))

call_create_file ==
    /\ callIn.fn = "create_file"
    /\ Returns(create_input(callIn.has_collection, CollectionTypes, callIn.input))

call_workspace_symbols ==
    /\ callIn.fn = "workspace_symbols"
    /\ Returns(workspace_symbols(callIn.has_collection, callIn.entries, callIn.query))

call_apply_changes ==
    /\ callIn.fn = "apply_changes"
    /\ Returns(apply_changes(callIn.rope, callIn.changes))

call_definition_in_body ==
    /\ callIn.fn = "definition_in_body"
    /\ Returns(definition_in_body(<< FileA >>, << >>, callIn.text, callIn.position[1],
                                  callIn.position[2], Some(FileS)))

NextCall ==
    \/ call_resolve_link_target
    \/ call_field_edit
    \/ call_prepare_rename
    \/ call_rename
    \/ call_compute
    \/ call_will_save_wait_until
    \/ call_create_file
    \/ call_workspace_symbols
    \/ call_apply_changes
    \/ call_definition_in_body

SpecCall == InitCall /\ [][NextCall]_vars

-----------------------------------------------------------------------------
(* SpecWalk: the extends-chain walks of commands.rs, one loop iteration    *)
(* per step.  callOut holds the local `current` of the walk, the parity of *)
(* the iterations made and, once the function has returned, the value      *)
(* returned.                                                               *)

\* A type with or without a parent, a filename pattern and a generated
\* strategy on the field id.
WalkType(extends, has_pattern, generated) ==
    [extends |-> extends,
     filename_pattern |-> IF has_pattern THEN Some(<< [field |-> None, text |-> DotMd] >>)
                          ELSE None,
     fields |-> << SchemaField("id", "string", TRUE, None, generated) >>]

\* collection.types: the types a and b, each extending nothing, itself, the
\* other, or the type c that the collection does not define.
WalkTypes ==
    LET parents == { None, Some(<< "a" >>), Some(<< "b" >>), Some(<< "c" >>) }
        defs    == { WalkType(extends, has_pattern, generated) :
                        extends \in parents, has_pattern \in BOOLEAN,
                        generated \in { None, Some("ulid") } }
    IN  [{ << "a" >>, << "b" >> } -> defs]

WalkInputs ==
    { [fn |-> fn, types |-> types, type_name |-> type_name, field_name |-> "id"] :
        fn \in { "has_generated_in_chain", "find_filename_pattern",
                 "generate_field_value" },
        types \in WalkTypes, type_name \in { << "a" >>, << "c" >> } }

InitWalk ==
    /\ RuntimeInit
    /\ typesFolder = "_types"
    /\ scope = NoteUri
    /\ scanText = << >>
    /\ scanOut = None
    /\ callIn \in WalkInputs
    /\ callOut = None

\* let mut current = Some(type_name.to_string());
walk_enter ==
    /\ callOut = None
    /\ callOut' = [fn |-> callIn.fn, current |-> Some(callIn.type_name),
                   parity |-> 0, returned |-> None]
    /\ UNCHANGED << runtimeVars, scanText, scanOut, callIn >>

\* The walk is in its loop.
Walking(fn) ==
    /\ callIn.fn = fn
    /\ callOut # None
    /\ callOut.returned = None

WalkReturns(value) ==
    /\ callOut' = [callOut EXCEPT !.returned = Some(value)]
    /\ UNCHANGED << runtimeVars, scanText, scanOut, callIn >>

\* current = type_def.extends.clone();
WalkContinues(type_def) ==
    /\ callOut' = [callOut EXCEPT !.current = type_def.extends,
                                  !.parity = 1 - @]
    /\ UNCHANGED << runtimeVars, scanText, scanOut, callIn >>

\* type_def.fields.get(field_name) with a generated strategy
GeneratedOf(type_def, field_name) ==
    LET field_def == FirstOf(type_def.fields, LAMBDA d : d.name = field_name)
    IN  IF field_def = None THEN None ELSE field_def.some.generated

\* has_generated_in_chain, one iteration of the loop (lines 169-180)
has_generated_step ==
    /\ Walking("has_generated_in_chain")
    /\ IF callOut.current = None THEN WalkReturns(FALSE)
       ELSE IF callOut.current.some \notin DOMAIN callIn.types THEN WalkReturns(FALSE)
       ELSE IF GeneratedOf(callIn.types[callOut.current.some], callIn.field_name) # None
       THEN WalkReturns(TRUE)
       ELSE WalkContinues(callIn.types[callOut.current.some])

\* find_filename_pattern, one iteration of the loop (lines 187-194)
find_pattern_step ==
    /\ Walking("find_filename_pattern")
    /\ IF callOut.current = None THEN WalkReturns(None)
       ELSE IF callOut.current.some \notin DOMAIN callIn.types THEN WalkReturns(None)
       ELSE IF callIn.types[callOut.current.some].filename_pattern # None
       THEN WalkReturns(callIn.types[callOut.current.some].filename_pattern)
       ELSE WalkContinues(callIn.types[callOut.current.some])

\* generate_field_value, one iteration of the loop (lines 206-227)
generate_value_step ==
    /\ Walking("generate_field_value")
    /\ IF callOut.current = None THEN WalkReturns(None)
       ELSE IF callOut.current.some \notin DOMAIN callIn.types THEN WalkReturns(None)
       ELSE IF GeneratedOf(callIn.types[callOut.current.some], callIn.field_name) # None
       THEN WalkReturns(Some(<< GeneratedOf(callIn.types[callOut.current.some],
                                            callIn.field_name).some >>))
       ELSE WalkContinues(callIn.types[callOut.current.some])

NextWalk ==
    \/ walk_enter
    \/ has_generated_step
    \/ find_pattern_step
    \/ generate_value_step

\* A thread that runs a walk keeps running it.
SpecWalk == InitWalk /\ [][NextWalk]_vars /\ WF_vars(NextWalk)

-----------------------------------------------------------------------------
(* Debounced diagnostics (C1 - C3).                                        *)

\* C1: in a run of did_change notifications for a URI, each processed while
\* the task of the previous one still sleeps and with no other notification
\* for the URI in between, no task but that of the last change publishes;
\* and a task that publishes with no notification after its own change
\* publishes the document's text as that change left it, with the
\* frontmatter parsed from that text.
C1_DebounceRun ==
    \A p \in out.pubs :
        p.by = "debounce" =>
            /\ p.run # "superseded"
            /\ p.run = "last" =>
                 /\ documents[p.uri] # None
                 /\ p.text = documents[p.uri].rope
                 /\ p.frontmatter = parse_frontmatter(p.text)

\* The task of the last change of a run publishes while the task of an
\* earlier change of the run is still alive.
C1_Witness ==
    /\ \E p \in out.pubs : p.by = "debounce" /\ p.run = "last"
    /\ \E i \in DOMAIN tasks : tasks[i].run = "superseded"

\* C2: a debounced task never publishes once a did_change or a did_save
\* for its URI has been processed while it slept.
C2_CancelledNeverPublishes ==
    \A p \in out.pubs : p.by = "debounce" => ~p.cancelled

\* C3: after the last did_change of an open markdown document, the
\* debounced tasks publish at most once.
C3_OncePerLastChange == after_change <= 1

-----------------------------------------------------------------------------
(* The frontmatter cache (C4).                                             *)

\* C4: the cached frontmatter of every document is empty or the parse of
\* the document's current rope, so that frontmatter() returns the parse of
\* the current rope.
C4_CacheCurrent ==
    \A u \in Uris :
        documents[u] # None =>
            /\ \/ documents[u].cached_frontmatter = None
               \/ documents[u].cached_frontmatter = parse_frontmatter(documents[u].rope)
            /\ frontmatter(documents[u]) = parse_frontmatter(documents[u].rope)

\* A debounced task has filled the cache of a document after an edit.
C4_Witness ==
    /\ documents[scope] # None
    /\ documents[scope].cached_frontmatter # None
    /\ \E p \in out.pubs : p.by = "debounce"

-----------------------------------------------------------------------------
(* did_close (C5).                                                         *)

-----------------------------------------------------------------------------
(* The collection cache (C6, C7).                                          *)

\* C6: a did_save of a type-definition file (.md, .yaml or .yml below
\* <root>/<types_folder>/) leaves no handle in the cache that was opened
\* before the save.
C6_TypeSaveClearsHandle ==
    [][(\E read \in Texts \cup { None } : did_save(scope, read))
          /\ IsTypeDefinitionFile(scope)
       => (collection' = None \/ ~collection'.outdated)]_vars

\* C7: the cache never holds a handle that was opened before an
\* invalidate_collection() that has returned.
C7_NoInvalidatedHandle == collection # None => ~collection.invalidated

-----------------------------------------------------------------------------
(* Workspace commands (C8, C9).                                            *)

\* C8: mdbase.validateCollection publishes a diagnostics notification for
\* every path the validation result reports an issue for.
C8_ValidatePublishes ==
    (/\ out.reply # None
     /\ out.reply.cmd = "mdbase.validateCollection"
     /\ out.reply.value # None)
    => \A path \in out.reply.value.issue_paths :
          \E p \in out.pubs : rel_path_from_uri(p.uri) = path

\* C9: every advertised command is routed to a handler, and
\* mdbase.queryCollection answers with the query, the matching entries of
\* the file index and their number.
C9_AdvertisedRouted ==
    (out.reply # None /\ out.reply.cmd \in AdvertisedCommands)
    => /\ out.reply.handler # "unknown"
       /\ out.reply.cmd = "mdbase.queryCollection" =>
             out.reply.value = query_collection(file_index, << >>)

-----------------------------------------------------------------------------
(* The records of a scanner call, and the line as the client sees it.      *)

\* str::encode_utf16: the UTF-16 code units of a line
RECURSIVE encode_utf16(_)
encode_utf16(chars) ==
    IF chars = << >> THEN << >>
    ELSE (IF Head(chars) = Astral THEN << "HI", "LO" >> ELSE << Head(chars) >>)
         \o encode_utf16(Tail(chars))

\* The body link records a call of find_body_links or body_link_at returned.
ScanRecords ==
    IF scanOut = None THEN { }
    ELSE IF scanOut.result.panic THEN { }
    ELSE IF scanOut.call = "find_body_links"
    THEN { scanOut.result.value[n] : n \in DOMAIN scanOut.result.value }
    ELSE IF scanOut.call = "body_link_at" /\ scanOut.result.value # None
    THEN { scanOut.result.value.some }
    ELSE { }

\* The line of a record, and the UTF-16 units the record spans on it.
RecordLine(r) == scanText[r.start_line + 1]

RecordUnits(r) == SubSeq(encode_utf16(RecordLine(r)), r.start_col + 1, r.end_col)

\* Line k (0-based) of the text is a fence or lies between an opening fence
\* and the next one.
InFencedBlock(text, k) ==
    \/ IsFence(text[k + 1])
    \/ Cardinality({ j \in 0 .. (k - 1) : IsFence(text[j + 1]) }) % 2 = 1

\* Index k of the line lies inside an inline code span: between a backtick
\* that opens a span (the first, third, ... of the line) and the one closing it.
InCodeSpan(chars, k) ==
    /\ Cardinality({ j \in 0 .. (k - 1) : Ch(chars, j) = Backtick }) % 2 = 1
    /\ \E j \in k .. (Len(chars) - 1) : Ch(chars, j) = Backtick

\* A wikilink with a target starts at index k of the line, the first "[[" of
\* the line, outside an inline code span and not an image embed.
PlainWikilinkAt(chars, k) ==
    LET c       == WikiClose(chars, k + 2)
        content == Slice(chars, k + 2, c)
    IN  /\ k + 1 < Len(chars)
        /\ Ch(chars, k) = "[" /\ Ch(chars, k + 1) = "["
        /\ k > 0 => Ch(chars, k - 1) # "!"
        /\ \A j \in 0 .. (k - 1) : ~(Ch(chars, j) = "[" /\ Ch(chars, j + 1) = "[")
        /\ c < Len(chars)
        /\ \A j \in DOMAIN content : content[j] \notin { Backtick, "[" }
        /\ Trim(BeforeFirst(BeforeFirst(content, "|"), "#")) # << >>
        /\ ~InCodeSpan(chars, k)

-----------------------------------------------------------------------------
(* The scanners (C10).                                                     *)

\* C10: find_body_links, body_link_at and link_at_position return normally
\* for every text.
C10_ScannersReturn == scanOut # None => ~scanOut.result.panic

\* C11: every body link record spans a complete construct of its line: the
\* UTF-16 units from start_col to end_col begin with "[[" and end with "]]"
\* for a wikilink, begin with "[" and end with ")" for a markdown link.
C11_SpansConstruct ==
    \A r \in ScanRecords :
        LET s == RecordUnits(r)
        IN  IF r.format = "Wikilink"
            THEN /\ Len(s) >= 4
                 /\ SubSeq(s, 1, 2) = << "[", "[" >>
                 /\ SubSeq(s, Len(s) - 1, Len(s)) = << "]", "]" >>
            ELSE /\ Len(s) >= 2
                 /\ s[1] = "["
                 /\ s[Len(s)] = ")"

\* C12: for every body link record, start_col <= end_col <= the UTF-16 length
\* of its line, start_col is the sum of the UTF-16 lengths of the chars before
\* the opening "[" and end_col the sum up to and including the closing "]]"
\* or ")", a char outside the BMP counting as two units.
C12_Utf16Columns ==
    \A r \in ScanRecords :
        LET chars == RecordLine(r)
            k     == CharIndexOf(chars, r.start_col, 0, 0)
            e     == CharIndexOf(chars, r.end_col, 0, 0)
        IN  /\ r.start_col <= r.end_col
            /\ r.end_col <= Len(encode_utf16(chars))
            /\ utf16_col(chars, k) = r.start_col
            /\ k < Len(chars)
            /\ Ch(chars, k) = "["
            /\ utf16_col(chars, e) = r.end_col
            /\ e > 0
            /\ Ch(chars, e - 1) = (IF r.format = "Wikilink" THEN "]" ELSE ")")

\* C13: find_body_links returns no record for a link on a line of a fenced
\* block, inside an inline code span, in an image embed or with an http(s)
\* URL; and it returns a record for every wikilink outside those contexts.
C13_SkipsOnlyThose ==
    /\ \A r \in ScanRecords :
          LET chars == RecordLine(r)
              k     == CharIndexOf(chars, r.start_col, 0, 0)
          IN  /\ ~InFencedBlock(scanText, r.start_line)
              /\ ~InCodeSpan(chars, k)
              /\ Ch(chars, k) # "!"
              /\ k > 0 => Ch(chars, k - 1) # "!"
              /\ r.format = "Markdown" => ~IsExternal(r.target)
    /\ (scanOut # None /\ scanOut.call = "find_body_links" /\ ~scanOut.result.panic)
          => \A l \in 0 .. (Len(scanText) - 1) :
                \A k \in 0 .. (Len(scanText[l + 1]) - 1) :
                    (~InFencedBlock(scanText, l) /\ PlainWikilinkAt(scanText[l + 1], k))
                    => \E r \in ScanRecords :
                          /\ r.start_line = l
                          /\ r.format = "Wikilink"
                          /\ r.start_col = utf16_col(scanText[l + 1], k)

-----------------------------------------------------------------------------
(* Link resolution (C14).                                                  *)

\* The call of resolve_link_target that has returned, if one has.
Resolved == callOut # None /\ callOut.fn = "resolve_link_target"

ResolveKnown == scan_collection_files(callIn.disk, callIn.extensions)

ResolveCandidate == Candidate(StripTarget(callIn.target), callIn.source)

\* md and the configured extensions
KnownExtensions ==
    { << "m", "d" >> } \cup { callIn.extensions[n] : n \in DOMAIN callIn.extensions }

\* p equals the candidate: rule (a)
MatchesExactly(p) == p = ResolveCandidate

\* p is the candidate with a known extension appended: rule (b)
MatchesWithExtension(p) ==
    \E ext \in KnownExtensions : p = ResolveCandidate \o << "." >> \o ext

\* p has the candidate as its stem, whatever the case, and the candidate has
\* no "/": rule (c)
MatchesByStem(p) ==
    /\ ~Contains(ResolveCandidate, "/")
    /\ ToLower(file_stem(p)) = ToLower(ResolveCandidate)

\* C14 as stated: resolve_link_target returns Some(p) iff p is an admitted
\* file of the collection that equals the normalized candidate, or is the
\* candidate with a known extension appended, or has the candidate as its
\* stem (case-insensitively) when the candidate has no "/".
C14_ResolveIff ==
    Resolved =>
        /\ callOut.value # None =>
              /\ Contains(ResolveKnown, callOut.value.some)
              /\ \/ MatchesExactly(callOut.value.some)
                 \/ MatchesWithExtension(callOut.value.some)
                 \/ MatchesByStem(callOut.value.some)
        /\ callOut.value = None =>
              \A n \in DOMAIN ResolveKnown :
                  ~(\/ MatchesExactly(ResolveKnown[n])
                    \/ MatchesWithExtension(ResolveKnown[n])
                    \/ MatchesByStem(ResolveKnown[n]))

\* Rule (b) for a candidate that has no known extension of its own.
MatchesInferred(p) ==
    /\ ~has_known_extension(callIn.extensions, ResolveCandidate)
    /\ MatchesWithExtension(p)

\* C14: for a target that is not empty once stripped, resolve_link_target
\* returns Some(p) iff p is an admitted file of the collection that equals
\* the normalized candidate, or is the candidate with a known extension
\* appended when the candidate has no known extension itself, or has the
\* candidate as its stem (case-insensitively) when the candidate has no "/";
\* for an empty target it returns None.
C14_ResolveIffInferred ==
    Resolved =>
        /\ callOut.value # None =>
              /\ StripTarget(callIn.target) # << >>
              /\ Contains(ResolveKnown, callOut.value.some)
              /\ \/ MatchesExactly(callOut.value.some)
                 \/ MatchesInferred(callOut.value.some)
                 \/ MatchesByStem(callOut.value.some)
        /\ (callOut.value = None /\ StripTarget(callIn.target) # << >>) =>
              \A n \in DOMAIN ResolveKnown :
                  ~(\/ MatchesExactly(ResolveKnown[n])
                    \/ MatchesInferred(ResolveKnown[n])
                    \/ MatchesByStem(ResolveKnown[n]))

\* No file is returned for a candidate with a path and an extension although
\* the collection holds the candidate with ".md" appended.
C14_Witness ==
    /\ Resolved
    /\ callOut.value = None
    /\ Contains(ResolveCandidate, "/")
    /\ has_known_extension(callIn.extensions, ResolveCandidate)
    /\ Contains(ResolveKnown, ResolveCandidate \o DotMd)

-----------------------------------------------------------------------------
(* The "Add field" quick fix (C15).                                        *)

\* field_edit has returned the edit of "Add field" (an empty replacement
\* line) for a field that no line of the document names.
AddFieldReturned ==
    /\ callOut # None
    /\ callOut.fn = "field_edit"
    /\ callIn.replacement = << >>
    /\ \A k \in DOMAIN callIn.text : ~FieldLine(callIn.text[k], callIn.field)

\* The 0-based indices of the lines after the first that close a block.
ClosingLines(text) ==
    { k \in 1 .. (Len(text) - 1) : TrimEnd(text[k + 1]) = Dashes }

HasFrontmatterBlock(text) ==
    /\ text # << >>
    /\ TrimEnd(text[1]) = Dashes
    /\ ClosingLines(text) # {}

ClosingLine(text) ==
    CHOOSE k \in ClosingLines(text) : \A j \in ClosingLines(text) : k <= j

\* C15: the "Add field <f>" quick fix for a field not present in the
\* document inserts "<f>: " and a newline at column 0 of the closing ---
\* line whenever the document has a frontmatter block, a block with no
\* interior lines included; only when the document has no frontmatter block
\* does it insert a new block of ---, "<f>: " and --- at (0, 0).
C15_AddFieldInserts ==
    AddFieldReturned =>
        IF HasFrontmatterBlock(callIn.text)
        THEN callOut.value =
                TextEdit(<< << ClosingLine(callIn.text), 0 >>,
                            << ClosingLine(callIn.text), 0 >> >>,
                         callIn.field \o << ":", " ", Newline >>)
        ELSE callOut.value =
                TextEdit(<< << 0, 0 >>, << 0, 0 >> >>,
                         Dashes \o << Newline >> \o callIn.field
                             \o << ":", " ", Newline >> \o Dashes \o << Newline >>)

-----------------------------------------------------------------------------
(* Rename (C16, C17).                                                      *)

\* rename has returned a workspace edit.
RenameReturned ==
    /\ callOut # None
    /\ callOut.fn = "rename"
    /\ ~callOut.value.panic
    /\ callOut.value.value # None

\* The symbol that the rename is about, and its references in a file.
RenamedSymbol ==
    symbol_at_position(callIn.files, << >>, TextOf(callIn.files, FileS), FileS,
                       callIn.position).value.some

RenamedRefs(rel) ==
    find_references_in_text(callIn.files, << >>, TextOf(callIn.files, rel), rel,
                            RenamedSymbol.target).value

\* What a range of one line of a file holds, in UTF-16 code units.
RangeUnits(rel, range) ==
    SubSeq(encode_utf16(TextOf(callIn.files, rel)[range[1][1] + 1]),
           range[1][2] + 1, range[2][2])

WithAnchor(new, anchor) ==
    IF anchor = None THEN new ELSE new \o << "#" >> \o anchor.some

\* The text that keeps the form of a reference renamed to `new`.
KeptForm(found, new) ==
    IF found.format = "Wikilink"
    THEN << "[", "[" >> \o WithAnchor(new, found.anchor)
            \o (IF found.alias = None THEN << >> ELSE << "|" >> \o found.alias.some)
            \o << "]", "]" >>
    ELSE IF found.format = "Markdown"
    THEN << "[" >> \o (IF found.alias = None THEN << "l", "i", "n", "k" >>
                       ELSE found.alias.some)
            \o << "]", "(" >> \o WithAnchor(new, found.anchor) \o << ")" >>
    ELSE new

\* The reference is in the document what its record says: a wikilink opens
\* with [[, a markdown link with [, and an anchor or an alias is in the text.
RefInDocument(rel, found) ==
    LET units == RangeUnits(rel, found.range)
    IN  /\ found.format = "Wikilink" => StartsWith(units, << "[", "[" >>)
        /\ found.format = "Markdown" =>
                StartsWith(units, << "[" >>) /\ ~StartsWith(units, << "[", "[" >>)
        /\ found.anchor # None => Contains(units, "#")
        /\ found.format = "Wikilink" /\ found.alias # None => Contains(units, "|")

\* C16: for every reference found by rename, the replacement text keeps the
\* reference's form: a wikilink becomes [[new]] with #anchor appended to the
\* target when it had an anchor and |alias when it had an alias; a markdown
\* link becomes [label](new) with the original label (or "link") and the
\* original #anchor; a frontmatter value becomes the bare new name.
C16_RenameKeepsForm ==
    RenameReturned =>
        \A change \in callOut.value.value.some :
            /\ Len(change.edits) = Len(RenamedRefs(change.path))
            /\ \A n \in DOMAIN change.edits :
                  /\ change.edits[n].range = RenamedRefs(change.path)[n].range
                  /\ RefInDocument(change.path, RenamedRefs(change.path)[n])
                  /\ change.edits[n].new_text
                        = KeptForm(RenamedRefs(change.path)[n], callIn.new_name)

\* A rename to another name has replaced, in the document, a wikilink with
\* an anchor and an alias and a markdown link with an anchor.
C16_Witness ==
    /\ RenameReturned
    /\ callIn.new_name # RenamedSymbol.target
    /\ \E change \in callOut.value.value.some :
          /\ change.path = FileS
          /\ \E n \in DOMAIN change.edits :
                /\ RenamedRefs(FileS)[n].format = "Wikilink"
                /\ RenamedRefs(FileS)[n].anchor # None
                /\ RenamedRefs(FileS)[n].alias # None
          /\ \E n \in DOMAIN change.edits :
                /\ RenamedRefs(FileS)[n].format = "Markdown"
                /\ RenamedRefs(FileS)[n].anchor # None

\* C17: rename is a fixed point: for every document and every position on a
\* resolvable link, the workspace edit returned by rename with new_name equal
\* to the symbol's current name (the placeholder of prepare_rename) leaves
\* the text of every file unchanged: every edit replaces a range by the text
\* that the range holds.
C17_RenameFixedPoint ==
    RenameReturned /\ callIn.new_name = RenamedSymbol.target =>
        \A change \in callOut.value.value.some :
            \A n \in DOMAIN change.edits :
                change.edits[n].new_text
                    = RangeUnits(change.path, change.edits[n].range)

-----------------------------------------------------------------------------
(* Per-document diagnostics (C18).                                         *)

ComputeReturned == callOut # None /\ callOut.fn = "compute"

\* The span of the key of a field on a line, in UTF-16 code units.
KeySpan(line_idx, line, field) ==
    LET start_col == Len(encode_utf16(line)) - Len(encode_utf16(TrimStart(line)))
    IN  << << line_idx, start_col >>,
           << line_idx, start_col + Len(encode_utf16(field)) >> >>

\* The 0-based indices of the interior lines that name the field.
KeyLines(text, field) ==
    IF frontmatter_bounds(text) = None THEN {}
    ELSE { k \in frontmatter_bounds(text).some[1] .. frontmatter_bounds(text).some[2] :
              FieldLine(text[k + 1], field) }

FallbackLine(text) ==
    IF frontmatter_bounds(text) = None THEN 0 ELSE frontmatter_bounds(text).some[1]

\* The range of the diagnostic of an issue.
IssueRange(text, issue) ==
    IF issue.field # None /\ KeyLines(text, issue.field.some) # {}
    THEN LET k == CHOOSE k \in KeyLines(text, issue.field.some) :
                     \A j \in KeyLines(text, issue.field.some) : k <= j
         IN  KeySpan(k, text[k + 1], issue.field.some)
    ELSE << << FallbackLine(text), 0 >>, << FallbackLine(text), 0 >> >>

IssueSeverity(issue) ==
    CASE issue.severity = Some("warning") -> "WARNING"
      [] issue.severity = Some("info")    -> "INFORMATION"
      [] OTHER                            -> "ERROR"

\* C18: when the frontmatter has a parse error or is not a mapping, compute
\* returns exactly one diagnostic at (0, 0) with code invalid_frontmatter and
\* does not call validation; otherwise it returns exactly one diagnostic per
\* validation issue, in order, with the issue's code and message, source
\* mdbase, the issue attached as data, the issue's severity, and a range
\* that is the field key span when the issue names a field found in the
\* frontmatter and (fallback_line, 0) otherwise.
C18_ComputeDiagnostics ==
    ComputeReturned =>
        LET d == callOut.value.diagnostics
        IN  IF callIn.parsed.parse_error \/ callIn.parsed.mapping_error
            THEN /\ Len(d) = 1
                 /\ d[1].range = << << 0, 0 >>, << 0, 0 >> >>
                 /\ d[1].code = "invalid_frontmatter"
                 /\ ~callOut.value.validated
            ELSE /\ Len(d) = Len(callIn.issues)
                 /\ \A n \in DOMAIN d :
                       /\ callIn.issues[n].code # None =>
                             d[n].code = callIn.issues[n].code.some
                       /\ callIn.issues[n].message # None =>
                             d[n].message = callIn.issues[n].message.some
                       /\ d[n].source = "mdbase"
                       /\ d[n].data = Some(callIn.issues[n])
                       /\ d[n].severity = IssueSeverity(callIn.issues[n])
                       /\ d[n].range = IssueRange(callIn.text, callIn.issues[n])

-----------------------------------------------------------------------------
(* will_save_wait_until (C19).                                             *)

\* will_save_wait_until has returned for an open markdown document of the
\* collection whose frontmatter parses.
WillSaveReturned ==
    /\ callOut # None
    /\ callOut.fn = "will_save_wait_until"
    /\ callIn.ends_with_md /\ callIn.has_collection /\ callIn.doc_text # None
    /\ ~callIn.parsed.parse_error /\ ~callIn.parsed.mapping_error

\* The names of the now_on_write fields of the matched types.
NowOnWriteNames ==
    UNION { { callIn.types[t][f].name :
                f \in { g \in DOMAIN callIn.types[t] :
                            callIn.types[t][g].generated = Some("now_on_write") } } :
            t \in DOMAIN callIn.types }

WillSaveEdits == IF callOut.value = None THEN << >> ELSE callOut.value.some

\* The 0-based indices of the lines of the block that set the field.
SettingLines(text, field) ==
    IF ~HasFrontmatterBlock(text) THEN {}
    ELSE { k \in 1 .. (ClosingLine(text) - 1) :
              StartsWith(TrimStart(text[k + 1]), field \o << ":" >>) }

\* The edit stamps the field: it replaces the first line of the block that
\* sets the field, or, when there is none, inserts a line before the closing
\* delimiter.
StampsField(edit, text, field) ==
    IF SettingLines(text, field) # {}
    THEN LET k == CHOOSE k \in SettingLines(text, field) :
                     \A j \in SettingLines(text, field) : k <= j
         IN  edit = TextEdit(<< << k, 0 >>, << k, Len(encode_utf16(text[k + 1])) >> >>,
                             field \o << ":", " " >> \o Timestamp)
    ELSE /\ HasFrontmatterBlock(text)
         /\ edit = TextEdit(<< << ClosingLine(text), 0 >>, << ClosingLine(text), 0 >> >>,
                            field \o << ":", " " >> \o Timestamp \o << Newline >>)

\* C19: will_save_wait_until returns, for every field that has generated
\* strategy now_on_write in a type matched by the document (each field
\* once), exactly one TextEdit: a replacement of the existing "field: ..."
\* line when such a line lies within the frontmatter bounds, otherwise an
\* insertion of "field: <timestamp>" as a new line immediately before the
\* closing frontmatter delimiter.
C19_StampsEveryField ==
    WillSaveReturned =>
        /\ Len(WillSaveEdits) = Cardinality(NowOnWriteNames)
        /\ \A field \in NowOnWriteNames :
              \E n \in DOMAIN WillSaveEdits :
                  StampsField(WillSaveEdits[n], callIn.doc_text.some, field)

-----------------------------------------------------------------------------
(* createFile (C20).                                                       *)

\* create_file has called collection.create for a type of the collection.
CreateCalled ==
    /\ callOut # None
    /\ callOut.fn = "create_file"
    /\ callOut.value # None
    /\ callIn.input.type # None
    /\ ToLower(callIn.input.type.some) \in DOMAIN CollectionTypes

\* The fields that the caller supplies.
Supplied ==
    LET given == IF callIn.input.frontmatter # None THEN callIn.input.frontmatter
                 ELSE callIn.input.fields
    IN  IF given # None /\ given.some.kind = "object" THEN given.some.map
        ELSE EmptyObject

TypedPlaceholder(field_type) ==
    CASE field_type = "string"  -> << >>
      [] field_type = "list"    -> << "[", "]" >>
      [] field_type = "object"  -> << "{", "}" >>
      [] field_type = "boolean" -> << "false" >>
      [] OTHER                  -> << "0" >>

\* C20: createFile passes to collection.create a frontmatter in which every
\* caller-supplied field keeps its supplied value and every required field
\* of the type that has no default, no generated strategy in the extends
\* chain and no supplied value carries a typed placeholder (empty string,
\* empty list, empty object, false or 0 according to its field type).
C20_CreateFrontmatter ==
    CreateCalled =>
        LET passed   == callOut.value.some.frontmatter.some.map
            tn_lower == ToLower(callIn.input.type.some)
            fields   == CollectionTypes[tn_lower].fields
        IN  /\ \A k \in DOMAIN Supplied : k \in DOMAIN passed /\ passed[k] = Supplied[k]
            /\ \A n \in DOMAIN fields :
                  ( /\ fields[n].required
                    /\ fields[n].default = None
                    /\ ~has_generated_in_chain(CollectionTypes, tn_lower, fields[n].name)
                    /\ fields[n].name \notin DOMAIN Supplied )
                  => /\ fields[n].name \in DOMAIN passed
                     /\ passed[fields[n].name] = TypedPlaceholder(fields[n].field_type)

-----------------------------------------------------------------------------
(* Workspace symbols (C21).                                                *)

\* workspace_symbols has answered on an open collection.
SymbolsReturned ==
    /\ callOut # None
    /\ callOut.fn = "workspace_symbols"
    /\ callOut.value # None

\* The entry is among the symbols returned.
Listed(entry) ==
    \E n \in DOMAIN callOut.value.some :
        callOut.value.some[n].location.rel_path = entry.rel_path

\* The query as the filter sees it: trimmed and in lower case.
FilterQuery == ToLower(Trim(callIn.query))

\* The X of a query key:X, or None when the query has another form.
KeyedValue(key) ==
    IF StartsWith(FilterQuery, key \o << ":" >>)
    THEN Some(Trim(SubSeq(FilterQuery, Len(key) + 2, Len(FilterQuery))))
    ELSE None

\* The lower-cased concatenation the free text is looked up in.
Concatenation(entry) ==
    ToLower(JoinWith(<< entry.rel_path, unwrap_or_default(entry.display_name),
                        unwrap_or_default(entry.title),
                        JoinWith(entry.types, << " " >>),
                        JoinWith(entry.tags, << " " >>) >>, << " " >>))

\* C21: the workspace-symbol filter lists an entry iff the query is empty,
\* or is type:X, tag:X or id:X and the entry has a type, tag or id equal to
\* X ignoring ASCII case, or is title:S and the lower-cased title contains
\* S, or has none of these forms and, in lower case, is a substring of the
\* lower-cased concatenation of rel_path, display_name, title, types, tags.
C21_SymbolFilter ==
    SymbolsReturned =>
        \A n \in DOMAIN callIn.entries :
            LET entry == callIn.entries[n]
            IN  Listed(entry) <=>
                  IF FilterQuery = << >> THEN TRUE
                  ELSE IF KeyedValue(KeyType) # None
                  THEN \E t \in DOMAIN entry.types :
                          ToLower(entry.types[t]) = ToLower(KeyedValue(KeyType).some)
                  ELSE IF KeyedValue(KeyTag) # None
                  THEN \E t \in DOMAIN entry.tags :
                          ToLower(entry.tags[t]) = ToLower(KeyedValue(KeyTag).some)
                  ELSE IF KeyedValue(KeyId) # None
                  THEN /\ entry.id # None
                       /\ ToLower(entry.id.some) = ToLower(KeyedValue(KeyId).some)
                  ELSE IF KeyedValue(KeyTitle) # None
                  THEN /\ entry.title # None
                       /\ ContainsStr(ToLower(entry.title.some), KeyedValue(KeyTitle).some)
                  ELSE ContainsStr(Concatenation(entry), FilterQuery)

-----------------------------------------------------------------------------
(* Generation counters (C22).                                              *)

\* The step is a did_change for `uri`: it spawns a task that records the
\* value bump_generation returned.
Bumps(uri) ==
    /\ Len(tasks') = Len(tasks) + 1
    /\ tasks'[Len(tasks')].uri = uri

\* C22: for each URI the values returned by successive bump_generation
\* calls are strictly increasing over the whole run: the value a did_change
\* obtains exceeds the value held by every task spawned for that URI by an
\* earlier did_change, whatever did_open, did_save and did_close
\* notifications came in between.
C22_BumpIncreasing ==
    [][\A uri \in Uris :
          Bumps(uri) =>
              \A i \in DOMAIN tasks :
                  tasks[i].uri = uri => tasks[i].gen < tasks'[Len(tasks')].gen]_vars

-----------------------------------------------------------------------------
(* The rope and the editor's text (C23).                                   *)

\* The offset, in UTF-16 code units, of a position in the editor's text.
UnitOffset(units, pos) ==
    LET breaks == { k \in DOMAIN units : units[k] = Newline }
    IN  pos[2] + IF pos[1] = 0 THEN 0
                 ELSE CHOOSE k \in breaks :
                          Cardinality({ j \in breaks : j <= k }) = pos[1]

\* The editor's text after one of its changes.
EditorChange(units, change) ==
    IF change.range = None THEN encode_utf16(change.text)
    ELSE SubSeq(units, 1, UnitOffset(units, change.range.some[1]))
            \o encode_utf16(change.text)
            \o SubSeq(units, UnitOffset(units, change.range.some[2]) + 1, Len(units))

RECURSIVE EditorChanges(_, _)
EditorChanges(units, changes) ==
    IF changes = << >> THEN units
    ELSE EditorChanges(EditorChange(units, Head(changes)), Tail(changes))

\* C23: after did_open and did_change notifications whose ranged changes
\* give positions in UTF-16 code units, the rope equals the editor's text,
\* that is the opened text with each change applied in order at those
\* UTF-16 positions, also for texts with chars outside the BMP.
C23_RopeTracksEditor ==
    (callOut # None /\ callOut.fn = "apply_changes")
    => /\ ~callOut.value.panic
       /\ encode_utf16(callOut.value.value)
            = EditorChanges(encode_utf16(callIn.rope), callIn.changes)

-----------------------------------------------------------------------------
(* The order of resolution (C24).                                          *)

\* The candidate with ".md", then with each configured extension in
\* settings order.
WithExtensions ==
    << ResolveCandidate \o DotMd >>
        \o [n \in DOMAIN callIn.extensions |->
              ResolveCandidate \o << "." >> \o callIn.extensions[n]]

\* The admitted paths whose stem is the candidate, in the same case or in any.
KnownPaths == { ResolveKnown[n] : n \in DOMAIN ResolveKnown }

StemEqual == { p \in KnownPaths : file_stem(p) = ResolveCandidate }

StemEqualIgnoringCase ==
    { p \in KnownPaths : ToLower(file_stem(p)) = ToLower(ResolveCandidate) }

\* C24: resolution returns the first hit of a fixed order: the candidate
\* itself when it is admitted; then, only for a candidate without a known
\* extension, the candidate with ".md" and with each configured extension
\* in settings order; then, only for a candidate without "/", a path whose
\* stem equals the candidate case-sensitively and, only if there is no such
\* path, a path whose stem equals it case-insensitively.
C24_ResolveOrder ==
    (Resolved /\ StripTarget(callIn.target) # << >>) =>
        LET hits == { n \in DOMAIN WithExtensions :
                        Contains(ResolveKnown, WithExtensions[n]) }
        IN  IF Contains(ResolveKnown, ResolveCandidate)
            THEN callOut.value = Some(ResolveCandidate)
            ELSE IF ~has_known_extension(callIn.extensions, ResolveCandidate)
                    /\ hits # {}
            THEN callOut.value
                   = Some(WithExtensions[CHOOSE n \in hits : \A m \in hits : n <= m])
            ELSE IF Contains(ResolveCandidate, "/") THEN callOut.value = None
            ELSE IF StemEqual # {}
            THEN callOut.value \in { Some(p) : p \in StemEqual }
            ELSE IF StemEqualIgnoringCase # {}
            THEN callOut.value \in { Some(p) : p \in StemEqualIgnoringCase }
            ELSE callOut.value = None

-----------------------------------------------------------------------------
(* Go-to-definition in the body (C25).                                     *)

\* C25: for every text and body position go-to-definition returns a
\* location iff body_link_at returns a link for the position whose target
\* resolves, and the location is line 0 of the resolved file; so it returns
\* nothing inside fenced code, inline code spans and image embeds, and it
\* reads the column in UTF-16 units.
C25_GotoAgreesWithScanner ==
    (callOut # None /\ callOut.fn = "definition_in_body")
    => LET scanned  == body_link_at(callIn.text, callIn.position[1], callIn.position[2])
           resolved == resolve_link_target(<< FileA >>, << >>,
                                           scanned.value.some.target, Some(FileS))
       IN  /\ ~callOut.value.panic
           /\ ~scanned.panic
           /\ callOut.value.value =
                 IF scanned.value = None \/ resolved = None THEN None
                 ELSE Some([rel_path |-> resolved.some,
                            range |-> << << 0, 0 >>, << 0, 0 >> >>])

-----------------------------------------------------------------------------
(* The file index (C26).                                                   *)

\* C26: in every reachable state the file index holds at most one entry
\* per rel_path, after any sequence and interleaving of rebuild,
\* upsert_from_text and remove_path.
C26_OneEntryPerPath ==
    \A i, j \in DOMAIN file_index :
        file_index[i].rel_path = file_index[j].rel_path => i = j

\* The rebuild has stored its scan and the document, open since, has been
\* upserted into an index that holds the other file as well.
C26_Witness ==
    /\ rebuild.pc = "done"
    /\ documents[scope] # None
    /\ Len(file_index) = 2
    /\ \E i \in DOMAIN file_index :
          /\ file_index[i].rel_path = rel_path_from_uri(scope)
          /\ file_index[i].preview = documents[scope].rope

-----------------------------------------------------------------------------
(* Index updates and the rebuild (C27).                                    *)

\* What the index holds for a path.
EntriesOf(entries, rel) ==
    { entries[i] : i \in { j \in DOMAIN entries : entries[j].rel_path = rel } }

\* The step in which the rebuild stores the vector it has scanned.
RebuildStores == rebuild.pc = "scan" /\ rebuild'.pc = "done"

\* C27: an index update made on behalf of did_open, did_save or did_close
\* is never undone by the background rebuild.  The index is empty until a
\* handler or the rebuild writes it, so an entry present for an open
\* document when the rebuild stores its scan was upserted by did_open or
\* did_save: the rebuild leaves that entry as it is.
C27_RebuildKeepsUpdates ==
    [][(/\ RebuildStores
        /\ documents[scope] # None
        /\ HasEntry(file_index, rel_path_from_uri(scope)))
       => EntriesOf(file_index', rel_path_from_uri(scope))
            = EntriesOf(file_index, rel_path_from_uri(scope))]_vars

-----------------------------------------------------------------------------
(* The text and the frontmatter of a publication (C28).                    *)

\* C28: each diagnostics publication for a URI is computed from a document
\* text and a frontmatter parse that belong to the same version of the
\* document: the parse is the parse of the text, under every interleaving
\* of publish (immediate or debounced) with did_change and did_save.
C28_TextAndParseAgree ==
    \A p \in out.pubs : p.frontmatter = parse_frontmatter(p.text)

-----------------------------------------------------------------------------
(* The ranges of a rename (C29).                                           *)

\* The value of a frontmatter line: what follows the key and its colon, or
\* the dash of a list item, without the blanks around it.
ValueOfLine(line) ==
    IF StartsWith(TrimStart(line), << "-", " " >>)
    THEN Trim(Tail(TrimStart(line)))
    ELSE Trim(SubSeq(line, Find(line, ":") + 2, Len(line)))

\* The range holds exactly the text of the reference.
CoversReference(rel, found) ==
    LET units == RangeUnits(rel, found.range)
        line  == TextOf(callIn.files, rel)[found.range[1][1] + 1]
    IN  /\ found.range[1][1] = found.range[2][1]
        /\ CASE found.format = "Wikilink" ->
                  /\ StartsWith(units, << "[", "[" >>)
                  /\ EndsWith(units, << "]", "]" >>)
                  /\ Find(units, "]") = Len(units) - 2
             [] found.format = "Markdown" ->
                  /\ StartsWith(units, << "[" >>)
                  /\ EndsWith(units, << ")" >>)
                  /\ Find(units, ")") = Len(units) - 1
             [] OTHER -> units = encode_utf16(ValueOfLine(line))

Overlap(r, q) ==
    /\ r[1][1] = q[1][1]
    /\ r[1][2] < q[2][2]
    /\ q[1][2] < r[2][2]

\* C29: in the workspace edit returned by rename, the range of every
\* TextEdit covers exactly the text of one reference: the whole link
\* construct for a body link and, for a frontmatter value, the value only,
\* never the field key, the list dash or the indentation; and no two edits
\* for the same file have overlapping ranges.
C29_RenameRanges ==
    RenameReturned =>
        \A change \in callOut.value.value.some :
            /\ \A n \in DOMAIN change.edits :
                  CoversReference(change.path, RenamedRefs(change.path)[n])
            /\ \A n, m \in DOMAIN change.edits :
                  n # m => ~Overlap(change.edits[n].range, change.edits[m].range)

-----------------------------------------------------------------------------
(* The extends-chain walks (C30).                                          *)

\* C30: the extends-chain walks of has_generated_in_chain,
\* find_filename_pattern and generate_field_value terminate for every type
\* map, including one in which the extends references form a cycle or name
\* a missing type: every walk that is started returns.
C30_WalksTerminate == <>(callOut # None /\ callOut.returned # None)
====
